---- MODULE Spec2Model ----
(***************************************************************************)
(* Model of the OCP Planning Director worker (ocp-worker/src/worker.js):   *)
(* the question route handleAsk with its boundary validation, the semantic *)
(* reranker rerankChunks with its batched embedding calls, and the hand    *)
(* off to the text-generation service, and the embedding route            *)
(* handleEmbed.                                                            *)
(*                                                                         *)
(* Strings are sequences of character codes.  A JavaScript value is a      *)
(* record [t, v]: t is its typeof-like tag and v its characters when it is *)
(* a string.  An embedding vector is a sequence of integers.  A similarity *)
(* is the record [nan, dot, mag] standing for the number                   *)
(* dot / (mag + 1e-8), or for NaN when nan is TRUE.                        *)
(***************************************************************************)
EXTENDS Integers, Sequences, FiniteSets, TLC

(* ---- Program constants (worker.js lines 13-19) ------------------------ *)
MAX_QUESTION_LENGTH == 1000
MAX_CHUNKS_ACCEPTED == 100
MAX_CHUNK_TEXT_LENGTH == 5000
MAX_EMBED_TEXTS == 200
MAX_EMBED_TEXT_LENGTH == 5000
RERANK_TOP_N == 25
RATE_LIMIT_WINDOW_MS == 60000
RATE_LIMIT_MAX_REQUESTS == 30
EMBEDDING_BATCH_SIZE == 100
MAX_CHUNK_ID_LENGTH == 50
MAX_SECTION_TITLE_LENGTH == 200

(* ---- Bounds of the explored inputs ------------------------------------ *)
\* the short candidate arrays have up to MaxSmall entries
MaxSmall == 3
\* inputs exceed each cap by up to MaxOver
MaxOver == 1
\* the number of question requests in flight together
MaxTogether == 2
\* the clock is advanced by one millisecond at most MaxTicks times within a
\* window length
MaxTicks == 1

VARIABLES
    body,            \* the parsed request body (input, never changed)
    env,             \* the bindings: env.AI and env.ANTHROPIC_API_KEY present?
    pc,              \* position of handleAsk: start, embed, generate, done
    sanitizedChunks, \* handleAsk: sanitizedChunks
    bi,              \* rerankChunks: loop index i of the batch loop
    allEmbeddings,   \* rerankChunks: allEmbeddings
    aiCalls,         \* batches sent to env.AI.run, in call order
    aiReplies,       \* what env.AI.run did for each call, in call order
    reranked,        \* the value rerankChunks returned
    rerankDone,      \* whether rerankChunks has returned
    bestChunks,      \* handleAsk: bestChunks
    genCalls,        \* prompts sent to the text-generation service
    genReplies,      \* what the text-generation call did
    response,        \* the response of the request; status 0 = none yet
    ebody,           \* the parsed body of a POST /embed request (input)
    esanitized,      \* handleEmbed: sanitized
    eresponse,       \* the response of handleEmbed; status 0 = none yet
    rateLimitMap,    \* rateLimitMap: IP -> { count, windowStart }
    now,             \* Date.now()
    rlast,           \* the last request fetch received and what it did with it
    gwin,            \* per IP, the requests seen and admitted in its window
    alog,            \* the times at which POSTs of one IP were admitted
    reqs,            \* the question requests in flight together
    stores,          \* the allEmbeddings arrays of the requests in flight
    lex              \* the lexical engine: its inputs and what it computed

vars == <<body, env, pc, sanitizedChunks, bi, allEmbeddings, aiCalls,
          aiReplies, reranked, rerankDone, bestChunks, genCalls, genReplies,
          response, ebody, esanitized, eresponse, rateLimitMap, now, rlast,
          gwin, alog, reqs, stores, lex>>

\* the variables of one question request
avars == <<body, env, pc, sanitizedChunks, bi, allEmbeddings, aiCalls,
           aiReplies, reranked, rerankDone, bestChunks, genCalls, genReplies,
           response>>

\* the variables of the rate limiter
rvars == <<rateLimitMap, now, rlast, gwin, alog>>

\* the variables of the requests in flight together
cvars == <<reqs, stores>>

\* the variables of the lexical engine
lvars == <<lex>>

\* the variables of the embedding route
evars == <<ebody, esanitized, eresponse>>

(* ---- JavaScript values ------------------------------------------------ *)
Min(a, b) == IF a < b THEN a ELSE b

Undef == [t |-> "undefined", v |-> <<>>]
\* the number n; a boolean is [t |-> "boolean", v |-> <<1>>] for true and
\* [t |-> "boolean", v |-> <<0>>] for false
Num(n) == [t |-> "number", v |-> <<n>>]
Str(s) == [t |-> "string", v |-> s]

\* a string of n characters whose characters vary with the position
MkStr(n, k) == [i \in 1..n |-> (i + k) % 5]

\* String.prototype.slice / Array.prototype.slice with 0 <= start <= end
Slice(s, start, end) == SubSeq(s, start + 1, Min(end, Len(s)))

\* !x for the values of the model: undefined, null, "", 0 and false are
\* falsy
Falsy(x) ==
    \/ x.t \in {"undefined", "null"}
    \/ (x.t = "string" /\ x.v = <<>>)
    \/ (x.t \in {"number", "boolean"} /\ x.v = <<0>>)

(* ---- Boundary guard of handleAsk -------------------------------------- *)
\* a filter that does not look at the text
IsValidChunkIdOnly(c) == c.t = "object" /\ c.id.t = "string"

\* the filter predicate of the sanitizer
IsValidChunk(c) == c.t = "object" /\ c.id.t = "string" /\ c.text.t = "string"

\* a map function that forgets to cap the text
SanitizeChunkNoTextCap(c) ==
    [id |-> Slice(c.id.v, 0, MAX_CHUNK_ID_LENGTH),
     sectionTitle |-> IF c.sectionTitle.t = "string"
                      THEN Slice(c.sectionTitle.v, 0, MAX_SECTION_TITLE_LENGTH)
                      ELSE <<>>,
     text |-> c.text.v]

\* the map function of the sanitizer
SanitizeChunk(c) ==
    [id |-> Slice(c.id.v, 0, MAX_CHUNK_ID_LENGTH),
     sectionTitle |-> IF c.sectionTitle.t = "string"
                      THEN Slice(c.sectionTitle.v, 0, MAX_SECTION_TITLE_LENGTH)
                      ELSE <<>>,
     text |-> Slice(c.text.v, 0, MAX_CHUNK_TEXT_LENGTH)]

\* chunks.filter(...).map(...)
SanitizeChunks(cs) ==
    LET kept == SelectSeq(cs, IsValidChunk)
    IN [i \in 1..Len(kept) |-> SanitizeChunk(kept[i])]

\* a question check without the typeof test
QuestionInvalidFalsyOnly(q) == Falsy(q)

\* !question || typeof question !== "string"
QuestionInvalid(q) == Falsy(q) \/ q.t # "string"

\* !chunks || !Array.isArray(chunks) || chunks.length === 0
ChunksInvalid(c) == Falsy(c) \/ c.t # "array" \/ Len(c.v) = 0

\* question.length > MAX_QUESTION_LENGTH
QuestionTooLong(q) == Len(q.v) > MAX_QUESTION_LENGTH

\* a count check that counts only the entries the sanitizer keeps
TooManyValidChunks(c) == Len(SelectSeq(c.v, IsValidChunk)) > MAX_CHUNKS_ACCEPTED

\* chunks.length > MAX_CHUNKS_ACCEPTED
TooManyChunks(c) == Len(c.v) > MAX_CHUNKS_ACCEPTED

\* whether request.json() or the destructuring of its result throws
BodyThrows(b) == b.t \in {"unparsable", "null"}

\* whether handleAsk gets as far as computing sanitizedChunks
ReachesSanitize(b) ==
    /\ ~BodyThrows(b)
    /\ ~QuestionInvalid(b.question)
    /\ ~ChunksInvalid(b.chunks)
    /\ ~QuestionTooLong(b.question)
    /\ ~TooManyChunks(b.chunks)

\* a handler that looks for the API key only when it builds the
\* generation request
ValidateAskKeyLate(b, e) ==
    IF BodyThrows(b) THEN 500
    ELSE IF QuestionInvalid(b.question) THEN 400
    ELSE IF ChunksInvalid(b.chunks) THEN 400
    ELSE IF QuestionTooLong(b.question) THEN 400
    ELSE IF TooManyChunks(b.chunks) THEN 400
    ELSE IF Len(SanitizeChunks(b.chunks.v)) = 0 THEN 400
    ELSE 0

\* the status handleAsk answers before any collaborator call, 0 when the
\* request passes every check
ValidateAsk(b, e) ==
    IF BodyThrows(b) THEN 500
    ELSE IF QuestionInvalid(b.question) THEN 400
    ELSE IF ChunksInvalid(b.chunks) THEN 400
    ELSE IF QuestionTooLong(b.question) THEN 400
    ELSE IF TooManyChunks(b.chunks) THEN 400
    ELSE IF Len(SanitizeChunks(b.chunks.v)) = 0 THEN 400
    ELSE IF ~e.ANTHROPIC_API_KEY THEN 500
    ELSE 0

(* ---- Cosine similarity ------------------------------------------------ *)
\* Math.sqrt on the perfect squares the model's vectors produce
ISqrt(n) == CHOOSE r \in 0..n : r * r = n

RECURSIVE SumTo(_, _, _)
\* sum of f[1..n], the accumulation of the for loop of cosineSimilarity
SumTo(a, b, n) == IF n = 0 THEN 0 ELSE SumTo(a, b, n - 1) + a[n] * b[n]

\* a quotient without the 1e-8 in the denominator: 0/0 for a zero vector
cosineSimilarityNoEpsilon(a, b) ==
    IF Len(b) < Len(a)
    THEN [nan |-> TRUE, dot |-> 0, mag |-> 0]
    ELSE [nan |-> ISqrt(SumTo(a, a, Len(a))) * ISqrt(SumTo(b, b, Len(a))) = 0,
          dot |-> SumTo(a, b, Len(a)),
          mag |-> ISqrt(SumTo(a, a, Len(a))) * ISqrt(SumTo(b, b, Len(a)))]

\* cosineSimilarity(a, b): the loop runs over a's indices; reading b past
\* its end gives undefined and turns dot and normB into NaN
cosineSimilarity(a, b) ==
    IF Len(b) < Len(a)
    THEN [nan |-> TRUE, dot |-> 0, mag |-> 0]
    ELSE [nan |-> FALSE,
          dot |-> SumTo(a, b, Len(a)),
          mag |-> ISqrt(SumTo(a, a, Len(a))) * ISqrt(SumTo(b, b, Len(a)))]

\* sign of x.similarity - y.similarity for two numbers d/(m + 1e-8) with
\* small integer d and m: the sign of d1*(m2+e) - d2*(m1+e), which is that
\* of d1*m2 - d2*m1 unless this is zero, and then that of d1 - d2
SignDiff(x, y) ==
    LET main == x.dot * y.mag - y.dot * x.mag
        rest == x.dot - y.dot
        d == IF main # 0 THEN main ELSE rest
    IN IF d > 0 THEN 1 ELSE IF d < 0 THEN -1 ELSE 0

\* the comparator with its operands swapped: (a, b) => a.similarity - b.similarity
CompareAscending(a, b) ==
    IF a.similarity.nan \/ b.similarity.nan THEN 0
    ELSE SignDiff(a.similarity, b.similarity)

\* the comparator (a, b) => b.similarity - a.similarity; a NaN result
\* counts as 0 in Array.prototype.sort
Compare(a, b) ==
    IF a.similarity.nan \/ b.similarity.nan THEN 0
    ELSE SignDiff(b.similarity, a.similarity)

(* ---- rerankChunks ------------------------------------------------------ *)
\* texts = [question, ...chunks.map(c => c.text)]
Texts(question, chunks) ==
    <<question>> \o [i \in 1..Len(chunks) |-> chunks[i].text]

\* a batch that runs one text into the next batch
BatchOverlap(texts, i) == Slice(texts, i, i + EMBEDDING_BATCH_SIZE + 1)

\* batch = texts.slice(i, i + EMBEDDING_BATCH_SIZE)
Batch(texts, i) == Slice(texts, i, i + EMBEDDING_BATCH_SIZE)

\* a loop that stops after its first batch
MoreBatchesNever(texts, i) == FALSE

\* the loop condition i < texts.length after i += EMBEDDING_BATCH_SIZE
MoreBatches(texts, i) == i + EMBEDDING_BATCH_SIZE < Len(texts)

\* chunkEmbeddings taken without skipping the query vector
ChunkEmbeddingsNoSlice(all) == all

\* chunkEmbeddings = allEmbeddings.slice(1)
ChunkEmbeddings(all) == Slice(all, 1, Len(all))

\* whether computing the similarities throws a TypeError: the query
\* vector is undefined (a.length), or a chunk's vector is undefined and
\* the loop body reads b[0]
ScoringThrows(chunks, all) ==
    \/ Len(all) = 0
    \/ /\ Len(all[1]) > 0
       /\ Len(ChunkEmbeddings(all)) < Len(chunks)

\* scored = chunks.map((chunk, i) => ({...chunk, similarity: ...}))
Scored(chunks, all) ==
    [i \in 1..Len(chunks) |->
        [id |-> chunks[i].id,
         sectionTitle |-> chunks[i].sectionTitle,
         text |-> chunks[i].text,
         similarity |-> cosineSimilarity(all[1], ChunkEmbeddings(all)[i])]]

\* scored.sort(comparator) for a consistent comparator: the sort is
\* stable, so s[i] ends up after the elements the comparator puts before it
\* and after the earlier elements that compare equal to it
StableSort(s) ==
    LET n == Len(s)
        rank == [i \in 1..n |->
                    1 + Cardinality({j \in 1..n :
                          \/ Compare(s[j], s[i]) < 0
                          \/ (Compare(s[j], s[i]) = 0 /\ j < i)})]
        ranks == SubSeq(rank, 1, n)
    IN [k \in 1..n |-> s[CHOOSE i \in 1..n : ranks[i] = k]]

HasNaN(s) == \E i \in 1..Len(s) : s[i].similarity.nan

Perms(n) == {p \in [1..n -> 1..n] : \A i, j \in 1..n : i # j => p[i] # p[j]}

\* the orders scored.sort can produce: with a NaN similarity the
\* comparator is not consistent and the order is implementation-defined
SortOutcomes(s) ==
    IF HasNaN(s)
    THEN {[i \in 1..Len(s) |-> s[p[i]]] : p \in Perms(Len(s))}
    ELSE {StableSort(s)}

\* a catch block that returns only the part of chunks that fits the prompt
FallbackTruncated(chunks) == Slice(chunks, 0, RERANK_TOP_N)

\* the catch block: return chunks
Fallback(chunks) == chunks

\* a hand-off without the slice
TopNAll(s) == s

\* reranked.slice(0, RERANK_TOP_N) / sanitizedChunks.slice(0, RERANK_TOP_N)
TopN(s) == Slice(s, 0, RERANK_TOP_N)

\* the passages of the prompt: each chunk is rendered from its id, its
\* section title and its text, in the order of bestChunks
Passages(cs) ==
    [i \in 1..Len(cs) |->
        [id |-> cs[i].id, sectionTitle |-> cs[i].sectionTitle, text |-> cs[i].text]]

\* a prompt that holds the first passage only
PromptFirstOnly(question, best) ==
    [question |-> Slice(question, 0, MAX_QUESTION_LENGTH),
     passages |-> Passages(Slice(best, 0, 1))]

\* the user message sent to the text-generation service
Prompt(question, best) ==
    [question |-> Slice(question, 0, MAX_QUESTION_LENGTH),
     passages |-> Passages(best)]

\* a response that leaves the identifiers out
RerankedIdsNone(best) == <<>>

\* rerankedIds: bestChunks.map(c => c.id)
RerankedIds(best) == [i \in 1..Len(best) |-> best[i].id]

(* ---- The embedding collaborator (env.AI.run) --------------------------- *)
\* the vectors a reply is built from; every prefix of every vector has a
\* norm that is an integer
Palette == << <<1, 0>>, <<0, 1>>, <<-1, 0>>, <<0, 0>>, <<3, 4>> >>
PaletteSize == Len(Palette)

\* the vector choices explored for a batch of n texts whose first text has
\* index g in texts: every choice for a short batch, and for a long one
\* the choices in which the vector's palette index is linear in the position
VecAt(q, a, b, i) ==
    IF i = 1 THEN Palette[q] ELSE Palette[((a * i + b) % PaletteSize) + 1]

\* the vector choices explored for a batch of n texts that follows g texts
\* already sent: the query's vector is any of the palette and the palette
\* index of a candidate's vector is linear in its position (every choice of
\* vectors for up to two candidates is of this form)
VecChoices(n, g) ==
    {[i \in 1..n |-> VecAt(q, a, b, g + i)] :
        q \in 1..PaletteSize,
        a \in 0..(PaletteSize - 1),
        b \in IF n <= MaxSmall + 1 THEN 0..(PaletteSize - 1) ELSE {0}}

\* the choices explored for a malformed reply
MalformedChoices(n, g) ==
    {[i \in 1..n |-> VecAt(q, 1, b, g + i)] :
        q \in 1..PaletteSize,
        b \in IF n <= MaxSmall + 1 THEN 0..(PaletteSize - 1) ELSE {0}}

\* the outcomes of one call: it throws; it resolves with one vector per
\* text (ok), with no data array, with a vector too few or too many, or
\* with a last vector of a smaller dimension
ReplyKinds == {"throw", "nodata", "ok", "short", "long", "baddim"}

ReplyData(kind, vecs) ==
    CASE kind = "ok" -> vecs
      [] kind = "short" -> SubSeq(vecs, 1, Len(vecs) - 1)
      [] kind = "long" -> Append(vecs, Palette[1])
      [] kind = "baddim" ->
            [i \in 1..Len(vecs) |->
                IF i = Len(vecs) THEN SubSeq(vecs[i], 1, 1) ELSE vecs[i]]
      [] OTHER -> <<>>

\* a loop that goes on to the next batch whatever the call did
ReplyUsableAlways(kind) == TRUE

\* whether allEmbeddings.push(...result.data) is reached and works
ReplyUsable(kind) == kind \notin {"throw", "nodata"}

(* ---- The text-generation collaborator ---------------------------------- *)
\* the outcomes of the call: a 2xx answer with text, a non-2xx status, a
\* 2xx body without answer text, a rejected fetch, a body that is not JSON
GenKinds == {"ok", "notok", "noanswer", "throw", "badjson"}

\* the status handleAsk answers after the generation call
GenStatus(kind) ==
    CASE kind = "ok" -> 200
      [] kind \in {"notok", "noanswer"} -> 502
      [] OTHER -> 500

(* ---- Inputs ------------------------------------------------------------ *)
EntryShort(k) ==
    [t |-> "object", id |-> Str(MkStr(2, k)), sectionTitle |-> Str(MkStr(3, k)),
     text |-> Str(MkStr(4, k))]
EntryLong(o) ==
    [t |-> "object", id |-> Str(MkStr(MAX_CHUNK_ID_LENGTH + o, 1)),
     sectionTitle |-> Str(MkStr(MAX_SECTION_TITLE_LENGTH + o, 2)),
     text |-> Str(MkStr(MAX_CHUNK_TEXT_LENGTH + o, 3))]
EntryNoTitle ==
    [t |-> "object", id |-> Str(<<7>>), sectionTitle |-> Num(7), text |-> Str(<<8, 9>>)]
EntryNoId ==
    [t |-> "object", id |-> Undef, sectionTitle |-> Str(<<1>>), text |-> Str(<<2>>)]
EntryNumText ==
    [t |-> "object", id |-> Str(<<3>>), sectionTitle |-> Str(<<1>>), text |-> Num(7)]
EntryNull == [t |-> "null", id |-> Undef, sectionTitle |-> Undef, text |-> Undef]

\* the entries the short arrays are cut from, taken cyclically
Master ==
    <<EntryShort(0), EntryLong(MaxOver), EntryNoId, EntryNoTitle, EntryNumText,
      EntryNull>>

\* the short array of n entries that starts at position a of Master
Window(a, n) == [i \in 1..n |-> Master[((a + i - 2) % Len(Master)) + 1]]

\* the i-th entry of a long array: distinct identifiers and texts
EntryAt(i) ==
    [t |-> "object", id |-> Str(<<i>>), sectionTitle |-> Str(<<i % 3>>),
     text |-> Str(MkStr(2, i))]

\* a long array of n entries, the entry at position bad being null
LongArray(n, bad) == [i \in 1..n |-> IF i = bad THEN EntryNull ELSE EntryAt(i)]

SmallArrays == {Window(a, n) : a \in 1..Len(Master), n \in 0..MaxSmall}

LongArrays ==
    {LongArray(n, bad) :
        n \in {MaxSmall}
              \cup (RERANK_TOP_N..(RERANK_TOP_N + MaxOver))
              \cup (MAX_CHUNKS_ACCEPTED..(MAX_CHUNKS_ACCEPTED + MaxOver)),
        bad \in {0, 2}}

ChunksValues ==
    {Undef, Num(0), Str(<<1>>)} \cup {[t |-> "array", v |-> a] : a \in SmallArrays \cup LongArrays}

QuestionValues ==
    {Undef, Num(0), Num(7), [t |-> "boolean", v |-> <<0>>], Str(<<>>),
     Str(MkStr(3, 0)), Str(MkStr(MAX_QUESTION_LENGTH, 1))}
    \cup {Str(MkStr(MAX_QUESTION_LENGTH + o, 1)) : o \in 1..MaxOver}

Bodies ==
    {[t |-> "object", question |-> q, chunks |-> c] :
        q \in QuestionValues, c \in ChunksValues}
    \cup {[t |-> k, question |-> Undef, chunks |-> Undef] :
            k \in {"unparsable", "null", "scalar"}}

Envs == [AI : BOOLEAN, ANTHROPIC_API_KEY : BOOLEAN]

NoResponse == [status |-> 0, rerankedIds |-> <<>>]

\* the rate limiter of a process that has received no request
NoEntry == [present |-> FALSE, count |-> 0, windowStart |-> 0]
NoRequest == [method |-> "none", header |-> "", ip |-> "", outcome |-> "none"]
NoWindow == [open |-> FALSE, start |-> 0, seen |-> 0, admitted |-> 0, limitedBefore |-> FALSE]
Keys == {"ip1", "ip2", "unknown"}

RateIdle ==
    /\ rateLimitMap = [k \in Keys |-> NoEntry]
    /\ now = 0
    /\ rlast = NoRequest
    /\ gwin = [k \in Keys |-> NoWindow]
    /\ alog = <<>>

\* no requests in flight together
TogetherIdle ==
    /\ reqs = <<>>
    /\ stores = <<>>

\* the lexical engine not in use
LexIdle == lex = [pc |-> "idle"]

\* the values of the embedding route's variables in a question request
NoEmbedBody == [t |-> "none", texts |-> Undef]
NoEmbedResponse == [status |-> 0, embeddings |-> <<>>]

(* ---- The request ------------------------------------------------------- *)
Init ==
    /\ body \in Bodies
    /\ env \in Envs
    /\ pc = "start"
    /\ sanitizedChunks = <<>>
    /\ bi = 0
    /\ allEmbeddings = <<>>
    /\ aiCalls = <<>>
    /\ aiReplies = <<>>
    /\ reranked = <<>>
    /\ rerankDone = FALSE
    /\ bestChunks = <<>>
    /\ genCalls = <<>>
    /\ genReplies = <<>>
    /\ response = NoResponse
    /\ ebody = NoEmbedBody
    /\ esanitized = <<>>
    /\ eresponse = NoEmbedResponse
    /\ RateIdle
    /\ TogetherIdle
    /\ LexIdle

\* a reranking step taken whatever the bindings
UsesRerankerAlways(e) == TRUE

\* if (env.AI): whether handleAsk calls rerankChunks
UsesReranker(e) == e.AI

\* a loop that issues every batch before awaiting any
CallsAtStartAllAtOnce(texts) ==
    [k \in 1..((Len(texts) + EMBEDDING_BATCH_SIZE - 1) \div EMBEDDING_BATCH_SIZE) |->
        Batch(texts, (k - 1) * EMBEDDING_BATCH_SIZE)]

\* the calls made before the first await of the batch loop: its first
\* iteration's env.AI.run
CallsAtStart(texts) == <<Batch(texts, 0)>>

\* handleAsk step 2 up to the await of the generation call
CallGeneration(best) ==
    /\ bestChunks' = best
    /\ genCalls' = Append(genCalls, Prompt(body.question.v, best))
    /\ pc' = "generate"

\* a sort that orders the chunks array itself and scores its elements
ChunksAfterRerankInPlace(chunks, r) == r

\* the chunks array after rerankChunks returned r: chunks.map builds scored
\* from copies ({...chunk, similarity}) and the sort orders scored
ChunksAfterRerank(chunks, r) == chunks

\* rerankChunks returns r: its promise is resolved, and handleAsk, which
\* awaits it, resumes in a later microtask
ReturnFromRerank(r) ==
    /\ sanitizedChunks' = ChunksAfterRerank(sanitizedChunks, r)
    /\ reranked' = r
    /\ rerankDone' = TRUE
    /\ pc' = "reranked"
    /\ UNCHANGED <<bestChunks, genCalls>>

\* handleAsk from its entry to its first await on a collaborator, or to
\* its response when a check fails
HandleAskStart ==
    /\ pc = "start"
    /\ LET status == ValidateAsk(body, env)
           sc == IF ReachesSanitize(body) THEN SanitizeChunks(body.chunks.v) ELSE <<>>
       IN /\ sanitizedChunks' = sc
          /\ IF status # 0
             THEN /\ response' = [status |-> status, rerankedIds |-> <<>>]
                  /\ pc' = "done"
                  /\ UNCHANGED <<aiCalls, bestChunks, genCalls>>
             ELSE IF UsesReranker(env)
             THEN /\ aiCalls' = CallsAtStart(Texts(body.question.v, sc))
                  /\ pc' = "embed"
                  /\ UNCHANGED <<response, bestChunks, genCalls>>
             ELSE /\ CallGeneration(TopN(sc))
                  /\ UNCHANGED <<response, aiCalls>>
    /\ UNCHANGED <<body, env, bi, allEmbeddings, aiReplies, reranked, rerankDone,
                   genReplies, evars, rvars, cvars, lvars>>

\* rerankChunks from the return of env.AI.run to the next await
EmbedReturn ==
    /\ pc = "embed"
    /\ \E kind \in ReplyKinds :
       \E vecs \in IF kind = "ok"
                   THEN VecChoices(Len(aiCalls[Len(aiCalls)]), bi)
                   ELSE MalformedChoices(Len(aiCalls[Len(aiCalls)]), bi) :
         LET data == ReplyData(kind, vecs)
             texts == Texts(body.question.v, sanitizedChunks)
             all == allEmbeddings \o data
         IN /\ kind = "baddim" => Len(sanitizedChunks) <= MaxSmall
            /\ aiReplies' = Append(aiReplies, [kind |-> kind, data |-> data])
            /\ IF ~ReplyUsable(kind)
               THEN /\ ReturnFromRerank(Fallback(sanitizedChunks))
                    /\ UNCHANGED <<bi, allEmbeddings, aiCalls>>
               ELSE IF MoreBatches(texts, bi)
               THEN /\ allEmbeddings' = all
                    /\ bi' = bi + EMBEDDING_BATCH_SIZE
                    /\ aiCalls' = Append(aiCalls, Batch(texts, bi + EMBEDDING_BATCH_SIZE))
                    /\ UNCHANGED <<pc, sanitizedChunks, reranked, rerankDone, bestChunks,
                                   genCalls>>
               ELSE /\ allEmbeddings' = all
                    /\ UNCHANGED <<bi, aiCalls>>
                    /\ IF ScoringThrows(sanitizedChunks, all)
                       THEN ReturnFromRerank(Fallback(sanitizedChunks))
                       ELSE \E sorted \in SortOutcomes(Scored(sanitizedChunks, all)) :
                                ReturnFromRerank(sorted)
    /\ UNCHANGED <<body, env, genReplies, response, evars, rvars, cvars, lvars>>

\* handleAsk from its resumption after await rerankChunks(...) to the await
\* of the generation call
HandleAskResume ==
    /\ pc = "reranked"
    /\ CallGeneration(TopN(reranked))
    /\ UNCHANGED <<body, env, sanitizedChunks, bi, allEmbeddings, aiCalls, aiReplies,
                   reranked, rerankDone, genReplies, response, evars, rvars, cvars,
                   lvars>>

\* handleAsk from the return of the generation call to its response
GenerateReturn ==
    /\ pc = "generate"
    /\ \E kind \in GenKinds :
         /\ genReplies' = Append(genReplies, kind)
         /\ response' = [status |-> GenStatus(kind),
                         rerankedIds |-> IF kind = "ok" THEN RerankedIds(bestChunks)
                                         ELSE <<>>]
    /\ pc' = "done"
    /\ UNCHANGED <<body, env, sanitizedChunks, bi, allEmbeddings, aiCalls, aiReplies,
                   reranked, rerankDone, bestChunks, genCalls, evars, rvars, cvars, lvars>>

Next == HandleAskStart \/ EmbedReturn \/ HandleAskResume \/ GenerateReturn

Spec == Init /\ [][Next]_vars

\* a question request each of whose collaborator calls returns or fails, and
\* whose handler runs when it can
FairSpec ==
    /\ Spec
    /\ WF_vars(HandleAskStart)
    /\ WF_vars(EmbedReturn)
    /\ WF_vars(HandleAskResume)
    /\ WF_vars(GenerateReturn)

(* ======================================================================= *)
(* POST /embed: handleEmbed                                                *)
(* ======================================================================= *)

(* ---- Inputs ------------------------------------------------------------ *)
\* the entries the short texts arrays are cut from, taken cyclically
TextMaster ==
    <<Str(MkStr(2, 0)), Str(<<>>), Str(MkStr(3, 1)), Num(0),
      Str(MkStr(MAX_EMBED_TEXT_LENGTH + MaxOver, 2)), Undef>>

\* the short texts array of n entries that starts at position a of TextMaster
TextWindow(a, n) == [i \in 1..n |-> TextMaster[((a + i - 2) % Len(TextMaster)) + 1]]

\* a long texts array of n distinct strings, the entry at position bad
\* being the empty string
LongTexts(n, bad) == [i \in 1..n |-> IF i = bad THEN Str(<<>>) ELSE Str(<<i, i % 3>>)]

SmallTextArrays == {TextWindow(a, n) : a \in 1..Len(TextMaster), n \in 0..MaxSmall}

LongTextArrays ==
    {LongTexts(n, bad) :
        n \in (EMBEDDING_BATCH_SIZE..(EMBEDDING_BATCH_SIZE + MaxOver))
              \cup (MAX_EMBED_TEXTS..(MAX_EMBED_TEXTS + MaxOver)),
        bad \in {0, 2}}

TextsValues ==
    {Undef, Num(0), Str(<<1>>)}
    \cup {[t |-> "array", v |-> a] : a \in SmallTextArrays \cup LongTextArrays}

EmbedBodies ==
    {[t |-> "object", texts |-> x] : x \in TextsValues}
    \cup {[t |-> k, texts |-> Undef] : k \in {"unparsable", "null", "scalar"}}

\* the value of the question route's body in a POST /embed request
NoBody == [t |-> "none", question |-> Undef, chunks |-> Undef]

(* ---- The checks and the sanitizer -------------------------------------- *)
\* !texts || !Array.isArray(texts) || texts.length === 0
TextsInvalid(x) == Falsy(x) \/ x.t # "array" \/ Len(x.v) = 0

\* texts.length > MAX_EMBED_TEXTS
TooManyTexts(x) == Len(x.v) > MAX_EMBED_TEXTS

\* a sanitizer that drops the non-strings and the empty strings but
\* does not cut the texts
SanitizeTextsNoCap(ts) ==
    LET mapped == [i \in 1..Len(ts) |->
                      IF ts[i].t # "string" THEN <<>> ELSE ts[i].v]
    IN SelectSeq(mapped, LAMBDA t : Len(t) > 0)

\* texts.map(t => typeof t !== "string" ? "" : t.slice(0, MAX_EMBED_TEXT_LENGTH))
\*      .filter(t => t.length > 0)
SanitizeTexts(ts) ==
    LET mapped == [i \in 1..Len(ts) |->
                      IF ts[i].t # "string" THEN <<>>
                      ELSE Slice(ts[i].v, 0, MAX_EMBED_TEXT_LENGTH)]
    IN SelectSeq(mapped, LAMBDA t : Len(t) > 0)

\* whether handleEmbed gets as far as computing sanitized
ReachesSanitizeTexts(b) ==
    /\ ~BodyThrows(b)
    /\ ~TextsInvalid(b.texts)
    /\ ~TooManyTexts(b.texts)

\* the status of the response handleEmbed returns before its batch loop,
\* 0 when it reaches the loop
ValidateEmbed(b) ==
    IF BodyThrows(b) THEN 500
    ELSE IF TextsInvalid(b.texts) THEN 400
    ELSE IF TooManyTexts(b.texts) THEN 400
    ELSE IF Len(SanitizeTexts(b.texts.v)) = 0 THEN 400
    ELSE 0

\* a catch block that answers with the vectors gathered so far
EmbedFailurePartial(all) == [status |-> 200, embeddings |-> all]

\* the catch block: 500 { error: "Embedding failed" }
EmbedFailure(all) == [status |-> 500, embeddings |-> <<>>]

(* ---- The request ------------------------------------------------------- *)
InitEmbed ==
    /\ ebody \in EmbedBodies
    /\ env \in Envs
    /\ pc = "estart"
    /\ esanitized = <<>>
    /\ eresponse = NoEmbedResponse
    /\ bi = 0
    /\ allEmbeddings = <<>>
    /\ aiCalls = <<>>
    /\ aiReplies = <<>>
    /\ body = NoBody
    /\ sanitizedChunks = <<>>
    /\ reranked = <<>>
    /\ rerankDone = FALSE
    /\ bestChunks = <<>>
    /\ genCalls = <<>>
    /\ genReplies = <<>>
    /\ response = NoResponse
    /\ RateIdle
    /\ TogetherIdle
    /\ LexIdle

\* handleEmbed from its entry to its first await on the collaborator, or to
\* its response when a check fails or env.AI is missing
HandleEmbedStart ==
    /\ pc = "estart"
    /\ LET status == ValidateEmbed(ebody)
           st == IF ReachesSanitizeTexts(ebody) THEN SanitizeTexts(ebody.texts.v) ELSE <<>>
       IN /\ esanitized' = st
          /\ IF status # 0
             THEN /\ eresponse' = [status |-> status, embeddings |-> <<>>]
                  /\ pc' = "done"
                  /\ UNCHANGED aiCalls
             ELSE IF ~env.AI
             THEN /\ eresponse' = EmbedFailure(<<>>)
                  /\ pc' = "done"
                  /\ UNCHANGED aiCalls
             ELSE /\ aiCalls' = CallsAtStart(st)
                  /\ pc' = "eembed"
                  /\ UNCHANGED eresponse
    /\ UNCHANGED <<body, env, sanitizedChunks, bi, allEmbeddings, aiReplies, reranked,
                   rerankDone, bestChunks, genCalls, genReplies, response, ebody,
                   rvars, cvars, lvars>>

\* handleEmbed from the return of env.AI.run to the next await or to its
\* response
HandleEmbedReturn ==
    /\ pc = "eembed"
    /\ \E kind \in ReplyKinds :
       \E vecs \in IF kind = "ok"
                   THEN VecChoices(Len(aiCalls[Len(aiCalls)]), bi)
                   ELSE MalformedChoices(Len(aiCalls[Len(aiCalls)]), bi) :
         LET data == ReplyData(kind, vecs)
             all == allEmbeddings \o data
         IN /\ aiReplies' = Append(aiReplies, [kind |-> kind, data |-> data])
            /\ IF ~ReplyUsable(kind)
               THEN /\ eresponse' = EmbedFailure(allEmbeddings)
                    /\ pc' = "done"
                    /\ UNCHANGED <<bi, allEmbeddings, aiCalls>>
               ELSE IF MoreBatches(esanitized, bi)
               THEN /\ allEmbeddings' = all
                    /\ bi' = bi + EMBEDDING_BATCH_SIZE
                    /\ aiCalls' = Append(aiCalls, Batch(esanitized, bi + EMBEDDING_BATCH_SIZE))
                    /\ UNCHANGED <<pc, eresponse>>
               ELSE /\ allEmbeddings' = all
                    /\ eresponse' = [status |-> 200, embeddings |-> all]
                    /\ pc' = "done"
                    /\ UNCHANGED <<bi, aiCalls>>
    /\ UNCHANGED <<body, env, sanitizedChunks, reranked, rerankDone, bestChunks,
                   genCalls, genReplies, response, ebody, esanitized, rvars, cvars, lvars>>

NextEmbed == HandleEmbedStart \/ HandleEmbedReturn

\* a POST /embed request
SpecEmbed == InitEmbed /\ [][NextEmbed]_vars

\* a request on either route, as fetch routes it
InitRoutes == Init \/ InitEmbed

NextRoutes == Next \/ NextEmbed

SpecRoutes == InitRoutes /\ [][NextRoutes]_vars

(* ======================================================================= *)
(* fetch: methods, the rate limiter and routing                            *)
(* ======================================================================= *)

(* ---- Inputs ------------------------------------------------------------ *)
Methods == {"OPTIONS", "GET", "POST"}

\* the values of the CF-Connecting-IP header; "" stands for a header that
\* is missing or empty
Headers == {"ip1", "ip2", ""}

Paths == {"/", "/embed"}

\* POSTs explored for one IP after the one that opened its window: past
\* the limit for ip1, none for the others
PostsExplored(ip) ==
    IF ip = "ip1" THEN RATE_LIMIT_MAX_REQUESTS + MaxOver ELSE 0

\* the clock is followed until cleanupRateLimits can delete an entry
Horizon == RATE_LIMIT_WINDOW_MS * 2 + MaxTicks

(* ---- isRateLimited and cleanupRateLimits ------------------------------- *)
\* one bucket for every request
ClientIPShared(header) == "unknown"

\* request.headers.get("CF-Connecting-IP") || "unknown"
ClientIP(header) == IF header = "" THEN "unknown" ELSE header

\* a window that ends with the millisecond it started in
StartsWindowEveryTick(m, ip, t) ==
    ~m[ip].present \/ t - m[ip].windowStart > 0

\* !entry || now - entry.windowStart > RATE_LIMIT_WINDOW_MS
StartsWindow(m, ip, t) ==
    ~m[ip].present \/ t - m[ip].windowStart > RATE_LIMIT_WINDOW_MS

\* a limit that lets one more request through
isRateLimitedOneMore(m, ip, t) ==
    IF StartsWindow(m, ip, t) THEN FALSE
    ELSE m[ip].count + 1 > RATE_LIMIT_MAX_REQUESTS + 1

\* the value isRateLimited(ip) returns at time t with the map m
isRateLimited(m, ip, t) ==
    IF StartsWindow(m, ip, t) THEN FALSE
    ELSE m[ip].count + 1 > RATE_LIMIT_MAX_REQUESTS

\* requests past the limit are not counted
MapAfterCheckAdmittedOnly(m, ip, t) ==
    IF StartsWindow(m, ip, t)
    THEN [m EXCEPT ![ip] = [present |-> TRUE, count |-> 1, windowStart |-> t]]
    ELSE IF m[ip].count >= RATE_LIMIT_MAX_REQUESTS THEN m
    ELSE [m EXCEPT ![ip].count = @ + 1]

\* every counted request restarts the window
MapAfterCheckSliding(m, ip, t) ==
    IF StartsWindow(m, ip, t)
    THEN [m EXCEPT ![ip] = [present |-> TRUE, count |-> 1, windowStart |-> t]]
    ELSE [m EXCEPT ![ip].count = @ + 1, ![ip].windowStart = t]

\* the map isRateLimited(ip) leaves behind: a new entry, or entry.count++
MapAfterCheck(m, ip, t) ==
    IF StartsWindow(m, ip, t)
    THEN [m EXCEPT ![ip] = [present |-> TRUE, count |-> 1, windowStart |-> t]]
    ELSE [m EXCEPT ![ip].count = @ + 1]

\* a cleanup that deletes every entry whose window started before t
cleanupRateLimitsEager(m, t) ==
    [k \in Keys |->
        IF m[k].present /\ t - m[k].windowStart > 0 THEN NoEntry ELSE m[k]]

\* cleanupRateLimits at time t
cleanupRateLimits(m, t) ==
    [k \in Keys |->
        IF m[k].present /\ t - m[k].windowStart > RATE_LIMIT_WINDOW_MS * 2
        THEN NoEntry ELSE m[k]]

\* the handler a POST is routed to
Route(path) == IF path = "/embed" THEN "handleEmbed" ELSE "handleAsk"

(* ---- The window of an IP, as the requests define it -------------------- *)
\* the window of ip after a POST at time t that was admitted or not: the
\* first POST, and the first POST more than a window length after the
\* start of the window, open a window; limitedBefore tells whether a POST
\* was rejected in the window before
WindowAfter(g, ip, t, admitted) ==
    IF ~g[ip].open \/ t - g[ip].start > RATE_LIMIT_WINDOW_MS
    THEN [g EXCEPT ![ip] = [open |-> TRUE, start |-> t, seen |-> 1,
                            admitted |-> IF admitted THEN 1 ELSE 0,
                            limitedBefore |-> g[ip].seen > g[ip].admitted]]
    ELSE [g EXCEPT ![ip].seen = @ + 1,
                   ![ip].admitted = IF admitted THEN @ + 1 ELSE @]

(* ---- The process ------------------------------------------------------- *)
\* no request is being handled
HandlersIdle ==
    /\ body = NoBody
    /\ env = [AI |-> TRUE, ANTHROPIC_API_KEY |-> TRUE]
    /\ pc = "idle"
    /\ sanitizedChunks = <<>>
    /\ bi = 0
    /\ allEmbeddings = <<>>
    /\ aiCalls = <<>>
    /\ aiReplies = <<>>
    /\ reranked = <<>>
    /\ rerankDone = FALSE
    /\ bestChunks = <<>>
    /\ genCalls = <<>>
    /\ genReplies = <<>>
    /\ response = NoResponse
    /\ ebody = NoEmbedBody
    /\ esanitized = <<>>
    /\ eresponse = NoEmbedResponse

InitRate ==
    /\ HandlersIdle
    /\ RateIdle
    /\ TogetherIdle
    /\ LexIdle

\* fetch for one request, from its entry to its response or to the call of
\* the handler; it has no await, so it runs as one step
FetchOf(method, header) ==
    LET ip == ClientIP(header)
        limited == isRateLimited(rateLimitMap, ip, now)
        checked == MapAfterCheck(rateLimitMap, ip, now)
    IN IF method = "OPTIONS"
       THEN /\ rlast' = [method |-> method, header |-> header, ip |-> ip, outcome |-> "preflight"]
            /\ UNCHANGED <<rateLimitMap, gwin>>
       ELSE IF method # "POST"
       THEN /\ rlast' = [method |-> method, header |-> header, ip |-> ip, outcome |-> "405"]
            /\ UNCHANGED <<rateLimitMap, gwin>>
       ELSE /\ StartsWindow(rateLimitMap, ip, now)
                   \/ rateLimitMap[ip].count <= PostsExplored(ip)
            /\ gwin' = WindowAfter(gwin, ip, now, ~limited)
            /\ IF limited
               THEN /\ rateLimitMap' = checked
                    /\ rlast' = [method |-> method, header |-> header, ip |-> ip, outcome |-> "429"]
               ELSE \E path \in Paths, cleanup \in BOOLEAN :
                    /\ rateLimitMap' = IF cleanup
                                       THEN cleanupRateLimits(checked, now)
                                       ELSE checked
                    /\ rlast' = [method |-> method, header |-> header, ip |-> ip,
                                 outcome |-> Route(path)]

\* a request arrives
Fetch ==
    /\ \E method \in Methods, header \in Headers : FetchOf(method, header)
    /\ UNCHANGED <<now, alog, avars, evars, cvars, lvars>>

\* time passes between two requests
Tick ==
    /\ \E d \in {1, RATE_LIMIT_WINDOW_MS} :
         /\ d = 1 => now % RATE_LIMIT_WINDOW_MS < MaxTicks
         /\ now + d <= Horizon
         /\ now' = now + d
    /\ UNCHANGED <<rateLimitMap, rlast, gwin, alog, avars, evars, cvars, lvars>>

NextRate == Fetch \/ Tick

\* the requests one process receives over time
SpecRate == InitRate /\ [][NextRate]_vars

(* ---- The POSTs of one IP over time -------------------------------------- *)
InitSpan ==
    /\ HandlersIdle
    /\ RateIdle
    /\ TogetherIdle
    /\ LexIdle

\* a POST of ip1 arrives: fetch runs for it, and alog records the time of
\* the request if it is handed to a handler
Post ==
    /\ FetchOf("POST", "ip1")
    /\ alog' = IF rlast'.outcome = "429" THEN alog ELSE Append(alog, now)
    /\ UNCHANGED <<now, avars, evars, cvars, lvars>>

\* time passes: to the next millisecond, or by a window length; the
\* schedules explored let it pass when the window of ip1 has counted at
\* most one POST or has reached the limit
Wait ==
    /\ \/ rateLimitMap["ip1"].count <= 1
       \/ rateLimitMap["ip1"].count >= RATE_LIMIT_MAX_REQUESTS
    /\ \E d \in {1, RATE_LIMIT_WINDOW_MS} :
         /\ d = 1 => now % RATE_LIMIT_WINDOW_MS <= MaxTicks
         /\ now + d <= RATE_LIMIT_WINDOW_MS * 3 + MaxTicks + 1
         /\ now' = now + d
    /\ UNCHANGED <<rateLimitMap, rlast, gwin, alog, avars, evars, cvars, lvars>>

NextSpan == Post \/ Wait

\* one IP posting over more than three window lengths
SpecSpan == InitSpan /\ [][NextSpan]_vars

(* ======================================================================= *)
(* Question requests in flight together                                    *)
(* ======================================================================= *)

(* ---- Inputs ------------------------------------------------------------ *)
Together == 1..MaxTogether

TogetherBodies ==
    {[t |-> "object", question |-> Str(MkStr(3, k)),
      chunks |-> [t |-> "array", v |-> c]] :
        k \in {0}, c \in {<<EntryShort(0), EntryNoTitle>>, <<EntryNoTitle, EntryShort(1)>>}}

\* the replies explored: the query's vector fixed, the candidates' vectors
\* equal (a = 0) or differing
TogetherVecs(n) ==
    {[i \in 1..n |-> VecAt(1, a, 0, i)] : a \in 0..(PaletteSize - 1)}

\* a request that fetch has just handed to handleAsk
NewRequest(b) ==
    [body |-> b, pc |-> "start", sanitizedChunks |-> <<>>, bi |-> 0,
     aiCalls |-> <<>>, aiReplies |-> <<>>, reranked |-> <<>>,
     rerankDone |-> FALSE, bestChunks |-> <<>>, genCalls |-> <<>>,
     genReplies |-> <<>>, response |-> NoResponse]

(* ---- The steps of request r -------------------------------------------- *)
\* one allEmbeddings array at module level, used by every invocation
EmbeddingsStoreShared(r) == 1

\* const allEmbeddings = [] (l.112): each invocation of rerankChunks has its own
EmbeddingsStore(r) == r

\* rerankChunks returns result to the handleAsk of request rq, which
\* resumes in a later microtask
Returned(rq, result) ==
    [rq EXCEPT !.reranked = result,
               !.rerankDone = TRUE,
               !.pc = "reranked"]

InitTogether ==
    /\ HandlersIdle
    /\ RateIdle
    /\ reqs \in [Together -> {NewRequest(b) : b \in TogetherBodies}]
    /\ stores = [r \in Together |-> <<>>]
    /\ LexIdle

\* handleAsk of request r from its entry to its first await
TogetherStart ==
    /\ \E r \in Together :
         LET rq == reqs[r]
             status == ValidateAsk(rq.body, [AI |-> TRUE, ANTHROPIC_API_KEY |-> TRUE])
             sc == IF ReachesSanitize(rq.body) THEN SanitizeChunks(rq.body.chunks.v)
                   ELSE <<>>
         IN /\ rq.pc = "start"
            /\ reqs' = [reqs EXCEPT ![r] =
                  IF status # 0
                  THEN [rq EXCEPT !.sanitizedChunks = sc,
                                  !.response = [status |-> status, rerankedIds |-> <<>>],
                                  !.pc = "done"]
                  ELSE [rq EXCEPT !.sanitizedChunks = sc,
                                  !.aiCalls = CallsAtStart(Texts(rq.body.question.v, sc)),
                                  !.pc = "embed"]]
    /\ UNCHANGED <<stores, avars, evars, rvars, lvars>>

\* rerankChunks of request r from the return of env.AI.run to the next await
TogetherEmbedReturn ==
    /\ \E r \in Together :
         LET rq == reqs[r]
             store == stores[EmbeddingsStore(r)]
         IN /\ rq.pc = "embed"
            /\ \E kind \in {"throw", "ok"} :
               \E vecs \in TogetherVecs(Len(rq.aiCalls[Len(rq.aiCalls)])) :
                 LET data == ReplyData(kind, vecs)
                     texts == Texts(rq.body.question.v, rq.sanitizedChunks)
                     all == store \o data
                     replied == [rq EXCEPT !.aiReplies =
                                     Append(@, [kind |-> kind, data |-> data])]
                 IN IF ~ReplyUsable(kind)
                    THEN /\ reqs' = [reqs EXCEPT ![r] =
                                        Returned(replied, Fallback(rq.sanitizedChunks))]
                         /\ UNCHANGED stores
                    ELSE IF MoreBatches(texts, rq.bi)
                    THEN /\ stores' = [stores EXCEPT ![EmbeddingsStore(r)] = all]
                         /\ reqs' = [reqs EXCEPT ![r] =
                               [replied EXCEPT
                                  !.bi = @ + EMBEDDING_BATCH_SIZE,
                                  !.aiCalls = Append(@, Batch(texts,
                                                 rq.bi + EMBEDDING_BATCH_SIZE))]]
                    ELSE /\ stores' = [stores EXCEPT ![EmbeddingsStore(r)] = all]
                         /\ IF ScoringThrows(rq.sanitizedChunks, all)
                            THEN reqs' = [reqs EXCEPT ![r] =
                                            Returned(replied, Fallback(rq.sanitizedChunks))]
                            ELSE \E sorted \in SortOutcomes(Scored(rq.sanitizedChunks, all)) :
                                    reqs' = [reqs EXCEPT ![r] = Returned(replied, sorted)]
    /\ UNCHANGED <<avars, evars, rvars, lvars>>

\* handleAsk of request r from its resumption after await rerankChunks(...)
\* to the await of the generation call
TogetherResume ==
    /\ \E r \in Together :
         LET rq == reqs[r]
         IN /\ rq.pc = "reranked"
            /\ reqs' = [reqs EXCEPT ![r] =
                  [rq EXCEPT !.bestChunks = TopN(rq.reranked),
                             !.genCalls = Append(@, Prompt(rq.body.question.v,
                                                           TopN(rq.reranked))),
                             !.pc = "generate"]]
    /\ UNCHANGED <<stores, avars, evars, rvars, lvars>>

\* handleAsk of request r from the return of the generation call to its
\* response
TogetherGenerateReturn ==
    /\ \E r \in Together :
         LET rq == reqs[r]
         IN /\ rq.pc = "generate"
            /\ \E kind \in GenKinds :
                 reqs' = [reqs EXCEPT ![r] =
                    [rq EXCEPT !.genReplies = Append(@, kind),
                               !.response =
                                   [status |-> GenStatus(kind),
                                    rerankedIds |-> IF kind = "ok"
                                                    THEN RerankedIds(rq.bestChunks)
                                                    ELSE <<>>],
                               !.pc = "done"]]
    /\ UNCHANGED <<stores, avars, evars, rvars, lvars>>

NextTogether ==
    TogetherStart \/ TogetherEmbedReturn \/ TogetherResume \/ TogetherGenerateReturn

\* admitted question requests whose steps interleave at their awaits
SpecTogether == InitTogether /\ [][NextTogether]_vars

(* ======================================================================= *)
(* The client-side lexical engine (spec 4.1 - 4.3)                         *)
(* Texts, terms and identifiers are sequences of characters.               *)
(* ======================================================================= *)

\* the passages of a corpus
MaxCorpus == 3

(* ---- Characters and strings -------------------------------------------- *)
\* the characters in use, in the order of their code units
CodeUnitOrder ==
    <<" ", "!", ",", ".", "1", "2", "3", "9", "?", "A", "B", "D", "F", "M",
      "R", "S", "a", "c", "d", "e", "f", "g", "h", "i", "k", "m", "n", "o",
      "p", "r", "s", "t", "w", "z">>

CodeUnit(c) == CHOOSE i \in 1..Len(CodeUnitOrder) : CodeUnitOrder[i] = c

Punctuation == {"!", ",", ".", "?"}

RECURSIVE StringCompare(_, _)
\* comparison of two strings by their code units: -1, 0 or 1
StringCompare(a, b) ==
    IF a = <<>> /\ b = <<>> THEN 0
    ELSE IF a = <<>> THEN -1
    ELSE IF b = <<>> THEN 1
    ELSE IF CodeUnit(a[1]) < CodeUnit(b[1]) THEN -1
    ELSE IF CodeUnit(a[1]) > CodeUnit(b[1]) THEN 1
    ELSE StringCompare(Tail(a), Tail(b))

RECURSIVE JoinWords(_)
\* the words of ws separated by single spaces
JoinWords(ws) ==
    IF ws = <<>> THEN <<>>
    ELSE IF Len(ws) = 1 THEN ws[1]
    ELSE ws[1] \o <<" ">> \o JoinWords(Tail(ws))

(* ---- 4.1 Lexical Normalizer -------------------------------------------- *)
\* the terms in use
Term ==
    [sign |-> <<"s", "i", "g", "n">>,
     signage |-> <<"s", "i", "g", "n", "a", "g", "e">>,
     dock |-> <<"d", "o", "c", "k">>,
     wharf |-> <<"w", "h", "a", "r", "f">>,
     pier |-> <<"p", "i", "e", "r">>,
     farm |-> <<"f", "a", "r", "m">>,
     the |-> <<"t", "h", "e">>,
     zoning |-> <<"z", "o", "n", "i", "n", "g">>]

\* the fixed stopword list
Stopwords == {Term.the, <<"a">>}

\* the synonym tables explored (canonical term -> set of related terms);
\* the table is configuration and its contents are not fixed: one in
\* which no related term is canonical, one in which a related term is
\* canonical with a related term of its own, and one in which the terms of
\* a group are each related to the others
SynonymTables ==
    {[t \in {Term.dock, Term.sign} |->
         IF t = Term.dock THEN {Term.wharf, Term.pier} ELSE {Term.signage}],
     [t \in {Term.dock, Term.sign, Term.wharf} |->
         IF t = Term.dock THEN {Term.wharf}
         ELSE IF t = Term.sign THEN {Term.signage}
         ELSE {Term.pier}],
     [t \in {Term.dock, Term.wharf, Term.pier} |->
         {Term.dock, Term.wharf, Term.pier} \ {t}]}

\* the synonym table the engine is configured with
SynonymTable == lex.table

Synonyms(t) == IF t \in DOMAIN SynonymTable THEN SynonymTable[t] ELSE {}

LowerOf(c) ==
    CASE c = "A" -> "a" [] c = "B" -> "b" [] c = "D" -> "d" [] c = "F" -> "f"
      [] c = "M" -> "m" [] c = "R" -> "r" [] c = "S" -> "s" [] OTHER -> c

RECURSIVE SplitFrom(_, _, _)
\* the words of text from position i on, cur being the word under way
SplitFrom(text, i, cur) ==
    IF i > Len(text) THEN (IF cur = <<>> THEN <<>> ELSE <<cur>>)
    ELSE IF text[i] = " "
    THEN (IF cur = <<>> THEN SplitFrom(text, i + 1, <<>>)
          ELSE <<cur>> \o SplitFrom(text, i + 1, <<>>))
    ELSE SplitFrom(text, i + 1, Append(cur, text[i]))

\* lowercase; strip punctuation; split on whitespace; drop stopwords
Tokens(text) ==
    LET lowercased == [i \in 1..Len(text) |-> LowerOf(text[i])]
        stripped == SelectSeq(lowercased, LAMBDA c : c \notin Punctuation)
    IN SelectSeq(SplitFrom(stripped, 1, <<>>), LAMBDA w : w \notin Stopwords)

EndsWith(w, suffix) ==
    /\ Len(w) > Len(suffix)
    /\ SubSeq(w, Len(w) - Len(suffix) + 1, Len(w)) = suffix

\* plural and singular forms: add or remove a trailing "s" / "es"
pluralVariants(w) ==
    {w \o <<"s">>, w \o <<"e", "s">>}
      \cup (IF EndsWith(w, <<"s">>) THEN {SubSeq(w, 1, Len(w) - 1)} ELSE {})
      \cup (IF EndsWith(w, <<"e", "s">>) THEN {SubSeq(w, 1, Len(w) - 2)} ELSE {})

\* a token with its plural and singular forms and its configured synonyms
Variants(w) == {w} \cup pluralVariants(w) \cup Synonyms(w)

extractTerms(text) ==
    UNION {Variants(Tokens(text)[i]) : i \in 1..Len(Tokens(text))}

\* applies the synonym table to a term set
expandTerms(terms) == terms \cup UNION {Synonyms(t) : t \in terms}

(* ---- 4.2 Lexical Scorer ------------------------------------------------ *)
\* term frequency: the tokens of the passage whose terms, extracted and
\* expanded, include t
TermFrequency(t, passage) ==
    Cardinality({i \in 1..Len(Tokens(passage.text)) :
                    t \in expandTerms(Variants(Tokens(passage.text)[i]))})

\* inverse document frequency: positive, and higher for rarer terms
InverseDocumentFrequency(t, corpus) ==
    Len(corpus) + 1
      - Cardinality({i \in 1..Len(corpus) : TermFrequency(t, corpus[i]) > 0})

RECURSIVE Score(_, _, _)
\* the sum of TF x IDF over the query terms
Score(queryTerms, passage, corpus) ==
    IF queryTerms = {} THEN 0
    ELSE LET t == CHOOSE x \in queryTerms : TRUE
         IN TermFrequency(t, passage) * InverseDocumentFrequency(t, corpus)
              + Score(queryTerms \ {t}, passage, corpus)

\* a score of zero or less is a valid candidate
IsCandidateAlways(score) == score >= 0

\* a score of zero is not a valid candidate
IsCandidate(score) == score > 0

IsNumeric(id) ==
    /\ id # <<>>
    /\ \A i \in 1..Len(id) : id[i] \in {"1", "2", "3", "9"}

\* identifiers coerced to numbers and subtracted: NaN unless both are numeric
CompareIdsNumeric(a, b) ==
    [nan |-> ~IsNumeric(a) \/ ~IsNumeric(b), v |-> StringCompare(a, b)]

\* identifiers compared as opaque strings
CompareIds(a, b) == [nan |-> FALSE, v |-> StringCompare(a, b)]

\* the comparator of the sort: score descending, then identifier
CompareCandidates(a, b) ==
    IF a.score # b.score
    THEN [nan |-> FALSE, v |-> IF a.score > b.score THEN -1 ELSE 1]
    ELSE CompareIds(a.passage.id, b.passage.id)

RECURSIVE InsertCandidate(_, _)
InsertCandidate(sorted, c) ==
    IF sorted = <<>> THEN <<c>>
    ELSE IF CompareCandidates(c, sorted[1]).v < 0 THEN <<c>> \o sorted
    ELSE <<sorted[1]>> \o InsertCandidate(Tail(sorted), c)

RECURSIVE SortCandidates(_)
SortCandidates(s) ==
    IF s = <<>> THEN <<>>
    ELSE InsertCandidate(SortCandidates(SubSeq(s, 1, Len(s) - 1)), s[Len(s)])

\* what sorting s may produce: the sorted order, or, when the comparator
\* yields NaN for some pair, whatever order the engine's sort leaves
CandidateSortOutcomes(s) ==
    IF \E i, j \in 1..Len(s) : i # j /\ CompareCandidates(s[i], s[j]).nan
    THEN {[i \in 1..Len(s) |-> s[p[i]]] : p \in Perms(Len(s))}
    ELSE {SortCandidates(s)}

scoreChunks(queryTerms, corpus) ==
    LET scored == [i \in 1..Len(corpus) |->
                     [passage |-> corpus[i],
                      score |-> Score(queryTerms, corpus[i], corpus)]]
    IN CandidateSortOutcomes(SelectSeq(scored, LAMBDA c : IsCandidate(c.score)))

(* ---- 4.3 Result Grouper ------------------------------------------------ *)
RECURSIVE SectionIds(_)
\* the parent-section identifiers of the candidates, by first appearance
SectionIds(candidates) ==
    IF candidates = <<>> THEN <<>>
    ELSE LET before == SectionIds(SubSeq(candidates, 1, Len(candidates) - 1))
             sid == candidates[Len(candidates)].passage.parentId
         IN IF \E i \in 1..Len(before) : before[i] = sid
            THEN before ELSE Append(before, sid)

\* a group keeps its top member only
GroupMembersTopOnly(candidates, sid) ==
    SubSeq(SelectSeq(candidates, LAMBDA c : c.passage.parentId = sid), 1, 1)

\* the candidates of section sid, in their order in candidates
GroupMembers(candidates, sid) ==
    SelectSeq(candidates, LAMBDA c : c.passage.parentId = sid)

\* groups ordered by their top member's score, descending, then by section
\* identifier compared as a string
GroupBefore(g, h) ==
    \/ g.members[1].score > h.members[1].score
    \/ /\ g.members[1].score = h.members[1].score
       /\ StringCompare(g.sectionId, h.sectionId) < 0

RECURSIVE InsertGroup(_, _)
InsertGroup(sorted, g) ==
    IF sorted = <<>> THEN <<g>>
    ELSE IF GroupBefore(g, sorted[1]) THEN <<g>> \o sorted
    ELSE <<sorted[1]>> \o InsertGroup(Tail(sorted), g)

RECURSIVE SortGroups(_)
SortGroups(s) ==
    IF s = <<>> THEN <<>>
    ELSE InsertGroup(SortGroups(SubSeq(s, 1, Len(s) - 1)), s[Len(s)])

groupBySection(candidates) ==
    SortGroups([i \in 1..Len(SectionIds(candidates)) |->
        LET members == GroupMembers(candidates, SectionIds(candidates)[i])
        IN [sectionId |-> SectionIds(candidates)[i],
            sectionTitle |-> members[1].passage.sectionTitle,
            members |-> members]])

(* ---- Inputs ------------------------------------------------------------ *)
\* the passages corpora are made of
PassagePool ==
    <<[id |-> <<"A", ".", "1", ".", "2">>, parentId |-> <<"A", ".", "1">>,
       sectionTitle |-> <<"S", "i", "g", "n", "s">>,
       text |-> JoinWords(<<<<"S", "i", "g", "n", ",">>, Term.the, Term.dock>>)],
      [id |-> <<"D", ".", "9", ".", "d", "e", "f", ".", "s", "i", "g", "n">>,
       parentId |-> <<"D", ".", "9">>, sectionTitle |-> <<"D", "e", "f", "s">>,
       text |-> Term.sign],
      [id |-> <<"B", ".", "2">>, parentId |-> <<"B">>,
       sectionTitle |-> <<"F", "a", "r", "m", "s">>,
       text |-> JoinWords(<<Term.wharf, <<"F", "A", "R", "M">>, Term.farm>>)],
      [id |-> <<"D", ".", "9", ".", "1">>, parentId |-> <<"D", ".", "9">>,
       sectionTitle |-> <<"D", "e", "f", "s">>, text |-> Term.sign],
      [id |-> <<"A", ".", "1", ".", "3">>, parentId |-> <<"A", ".", "1">>,
       sectionTitle |-> <<"S", "i", "g", "n", "s">>,
       text |-> JoinWords(<<Term.the, <<"f", "a", "r", "m", "s", ".">>>>)]>>

\* the corpora: MaxCorpus different passages of the pool, in any order
Corpora ==
    {[i \in 1..MaxCorpus |-> PassagePool[c[i]]] :
        c \in {d \in [1..MaxCorpus -> 1..Len(PassagePool)] :
                  \A i, j \in 1..MaxCorpus : i # j => d[i] # d[j]}}

Queries ==
    {<<>>,
     <<"?", "!">>,
     Term.the,
     Term.sign,
     <<"D", "o", "c", "k", "s", "?">>,
     JoinWords(<<Term.farm, Term.sign>>),
     Term.zoning}

(* ---- The engine applied to its inputs ---------------------------------- *)
\* the engine configured with a synonym table, and a term set to expand
\* or a query to score against a corpus
LexInput(at, table, T, query, corpus) ==
    [pc |-> at, table |-> table, T |-> T, query |-> query, corpus |-> corpus,
     once |-> {}, twice |-> {}, queryTerms |-> {},
     ranked |-> <<>>, rerun |-> <<>>, groups |-> <<>>]

InitLexical ==
    /\ HandlersIdle
    /\ RateIdle
    /\ TogetherIdle
    /\ \E table \in SynonymTables :
         \/ \E T \in SUBSET {Term.dock, Term.wharf, Term.pier, Term.sign,
                              Term.signage, Term.farm, Term.the} :
               lex = LexInput("terms", table, T, <<>>, <<>>)
         \/ \E query \in Queries, corpus \in Corpora :
               lex = LexInput("query", table, {}, query, corpus)

\* expandTerms applied to T, and again to its result
LexExpand ==
    /\ lex.pc = "terms"
    /\ lex' = [lex EXCEPT !.once = expandTerms(lex.T),
                          !.twice = expandTerms(expandTerms(lex.T)),
                          !.pc = "expanded"]
    /\ UNCHANGED <<avars, evars, rvars, cvars>>

\* the query normalised and scored against the corpus, in two runs
LexScore ==
    /\ lex.pc = "query"
    /\ LET queryTerms == expandTerms(extractTerms(lex.query))
       IN \E ranked \in scoreChunks(queryTerms, lex.corpus) :
          \E rerun \in scoreChunks(queryTerms, lex.corpus) :
             lex' = [lex EXCEPT !.queryTerms = queryTerms,
                                !.ranked = ranked,
                                !.rerun = rerun,
                                !.pc = "scored"]
    /\ UNCHANGED <<avars, evars, rvars, cvars>>

\* the candidates grouped by section
LexGroup ==
    /\ lex.pc = "scored"
    /\ lex' = [lex EXCEPT !.groups = groupBySection(lex.ranked),
                          !.pc = "grouped"]
    /\ UNCHANGED <<avars, evars, rvars, cvars>>

NextLexical == LexExpand \/ LexScore \/ LexGroup

SpecLexical == InitLexical /\ [][NextLexical]_vars

(* ======================================================================= *)
(* Properties                                                              *)
(* ======================================================================= *)

(* ---- What the request submitted, stated without the sanitizer ---------- *)
\* a submitted candidate has a string identifier and a string text
HasIdAndText(c) == c.t = "object" /\ c.id.t = "string" /\ c.text.t = "string"

\* the submitted candidate array ( <<>> when none was submitted )
Submitted == IF body.chunks.t = "array" THEN body.chunks.v ELSE <<>>

\* the positions of the valid candidates in the submitted array, ascending
ValidPositions ==
    SelectSeq([i \in 1..Len(Submitted) |-> i], LAMBDA i : HasIdAndText(Submitted[i]))

NumValid == Len(ValidPositions)

\* the first n characters of s
Prefix(s, n) == IF Len(s) <= n THEN s ELSE SubSeq(s, 1, n)

IsPrefixOf(p, s) == Len(p) <= Len(s) /\ p = SubSeq(s, 1, Len(p))

\* the capped form of the submitted candidate c
Capped(c) ==
    [id |-> Prefix(c.id.v, MAX_CHUNK_ID_LENGTH),
     sectionTitle |-> IF c.sectionTitle.t = "string"
                      THEN Prefix(c.sectionTitle.v, MAX_SECTION_TITLE_LENGTH)
                      ELSE <<>>,
     text |-> Prefix(c.text.v, MAX_CHUNK_TEXT_LENGTH)]

\* the valid candidates, capped, in the order submitted
ValidCandidates ==
    LET vp == ValidPositions
    IN SubSeq([k \in 1..Len(vp) |-> Capped(Submitted[vp[k]])], 1, Len(vp))

\* the request is valid apart from the length of its question
ValidApartFromQuestionLength ==
    /\ body.t = "object"
    /\ body.question.t = "string"
    /\ body.question.v # <<>>
    /\ body.chunks.t = "array"
    /\ Len(body.chunks.v) \in 1..MAX_CHUNKS_ACCEPTED
    /\ NumValid >= 1
    /\ env.ANTHROPIC_API_KEY

(* ---- What the embedding collaborator was sent and returned ------------- *)
RECURSIVE ConcatCalls(_)
ConcatCalls(k) == IF k = 0 THEN <<>> ELSE ConcatCalls(k - 1) \o aiCalls[k]

\* every text sent so far, in call order
SentTexts == ConcatCalls(Len(aiCalls))

RECURSIVE ConcatData(_)
ConcatData(k) == IF k = 0 THEN <<>> ELSE ConcatData(k - 1) \o aiReplies[k].data

\* the vectors returned so far, in call order
ReturnedVectors == ConcatData(Len(aiReplies))

\* the vector the collaborator returned for the text sent as the p-th text
\* of call k
VectorFor(k, p) == aiReplies[k].data[p]

\* the call and the position in the call with which the i-th text is sent
CallOf(i) == ((i - 1) \div EMBEDDING_BATCH_SIZE) + 1
PosOf(i) == ((i - 1) % EMBEDDING_BATCH_SIZE) + 1

SomeCallThrew == \E k \in 1..Len(aiReplies) : aiReplies[k].kind = "throw"

\* every call made returned one well-formed vector per text
AllRepliesOk ==
    /\ Len(aiReplies) >= 1
    /\ \A k \in 1..Len(aiReplies) : aiReplies[k].kind = "ok"

\* the similarity of candidate i by the vectors returned for the query text
\* and for candidate i's own text
SimilarityOf(i) ==
    cosineSimilarity(VectorFor(1, 1), VectorFor(CallOf(i + 1), PosOf(i + 1)))

\* real-number order on similarities
SimGreater(x, y) == SignDiff(x, y) > 0
SimAtLeast(x, y) == SignDiff(x, y) >= 0

\* C1: if a call to the embedding collaborator throws, in the first batch or
\* in a later one, rerankChunks returns normally and returns exactly the
\* candidate sequence it was given, and handleAsk goes on to generation.
C1_FallbackOnThrow ==
    SomeCallThrew =>
        /\ rerankDone
        /\ reranked = sanitizedChunks
        /\ Len(aiCalls) = Len(aiReplies)
        /\ pc \in {"reranked", "generate", "done"}
        /\ pc # "reranked" => Len(genCalls) = 1

C1_Witness ==
    /\ Len(aiReplies) = 2
    /\ aiReplies[1].kind = "ok"
    /\ aiReplies[2].kind = "throw"
    /\ rerankDone
    /\ Len(reranked) = MAX_CHUNKS_ACCEPTED

\* C2: without env.AI no embedding call is made and generation is handed the
\* first min(25, n) of the n valid candidates in the order submitted.
C2_NoAIKeepsOrder ==
    ~env.AI =>
        /\ aiCalls = <<>>
        /\ aiReplies = <<>>
        /\ genCalls # <<>> =>
             LET vc == ValidCandidates
             IN /\ Len(genCalls[1].passages) = Min(RERANK_TOP_N, Len(vc))
                /\ \A k \in 1..Len(genCalls[1].passages) :
                       genCalls[1].passages[k] = vc[k]

C2_Witness ==
    /\ ~env.AI
    /\ response.status = 200
    /\ NumValid > RERANK_TOP_N
    /\ NumValid < Len(Submitted)

\* C3: when every embedding call returned one well-formed vector per text,
\* rerankChunks returns the candidates in non-increasing order of
\* similarity, and a candidate strictly more similar to the query than every
\* other one comes first.
C3_SortedBySimilarity ==
    (rerankDone /\ AllRepliesOk) =>
        /\ \A i, j \in 1..Len(reranked) :
              i < j => SimAtLeast(reranked[i].similarity, reranked[j].similarity)
        /\ \A i \in 1..Len(sanitizedChunks) :
              (\A j \in 1..Len(sanitizedChunks) :
                    j # i => SimGreater(SimilarityOf(i), SimilarityOf(j)))
              => /\ reranked[1].id = sanitizedChunks[i].id
                 /\ reranked[1].text = sanitizedChunks[i].text
                 /\ reranked[1].similarity = SimilarityOf(i)

C3_Witness ==
    /\ rerankDone
    /\ AllRepliesOk
    /\ Len(reranked) >= 2
    /\ \E i \in 2..Len(sanitizedChunks) :
          /\ \A j \in 1..Len(sanitizedChunks) :
                j # i => SimGreater(SimilarityOf(i), SimilarityOf(j))
          /\ reranked[1].id = sanitizedChunks[i].id
          /\ reranked[1].id # sanitizedChunks[1].id

\* the candidates with the similarity the returned vectors give each
ExpectedScored ==
    SubSeq([i \in 1..Len(sanitizedChunks) |->
               [id |-> sanitizedChunks[i].id,
                sectionTitle |-> sanitizedChunks[i].sectionTitle,
                text |-> sanitizedChunks[i].text,
                similarity |-> SimilarityOf(i)]],
           1, Len(sanitizedChunks))

\* a and b hold the same elements the same number of times
SameElements(a, b) ==
    /\ Len(a) = Len(b)
    /\ \A i \in 1..Len(a) :
          Cardinality({k \in 1..Len(b) : b[k] = a[i]})
              = Cardinality({k \in 1..Len(a) : a[k] = a[i]})

\* C4: the query is the first text sent and the candidates' texts follow in
\* input order, across batches; and the similarity attached to each
\* candidate is the one of the vector returned for its own text.
C4_Alignment ==
    /\ LET sent == SentTexts
       IN \A i \in 1..Len(sent) :
             sent[i] = IF i = 1 THEN body.question.v ELSE sanitizedChunks[i - 1].text
    /\ \A k \in 1..Len(aiCalls) :
          Len(aiCalls[k]) = Min(EMBEDDING_BATCH_SIZE,
                                Len(sanitizedChunks) + 1 - (k - 1) * EMBEDDING_BATCH_SIZE)
    /\ (rerankDone /\ AllRepliesOk) =>
          /\ Len(SentTexts) = Len(sanitizedChunks) + 1
          /\ LET expected == ExpectedScored IN SameElements(expected, reranked)

C4_Witness ==
    /\ rerankDone
    /\ AllRepliesOk
    /\ Len(aiCalls) = 2
    /\ Len(aiCalls[1]) = EMBEDDING_BATCH_SIZE
    /\ Len(aiCalls[2]) = 1
    /\ VectorFor(2, 1) # VectorFor(1, EMBEDDING_BATCH_SIZE)
    /\ SimGreater(SimilarityOf(MAX_CHUNKS_ACCEPTED), SimilarityOf(MAX_CHUNKS_ACCEPTED - 1))

\* C5: every request answered 200 handed exactly min(25, number of valid
\* candidates) passages to generation and lists as many ids in rerankedIds,
\* whichever path produced the order.
C5_TopNCount ==
    response.status = 200 =>
        /\ Len(genCalls) = 1
        /\ Len(genCalls[1].passages) = Min(RERANK_TOP_N, NumValid)
        /\ Len(response.rerankedIds) = Min(RERANK_TOP_N, NumValid)

C5_Witness ==
    /\ response.status = 200
    /\ NumValid > RERANK_TOP_N
    /\ rerankDone
    /\ AllRepliesOk
    /\ Len(response.rerankedIds) = RERANK_TOP_N

\* C6: a request that is valid except that its question is longer than 1000
\* characters is not rejected: it is processed with the question cut to its
\* first 1000 characters.
C6_LongQuestionTruncated ==
    (/\ ValidApartFromQuestionLength
     /\ Len(body.question.v) > MAX_QUESTION_LENGTH
     /\ pc = "done")
    => /\ response.status # 400
       /\ Len(genCalls) = 1
       /\ genCalls[1].question = Prefix(body.question.v, MAX_QUESTION_LENGTH)

\* C7: a request whose candidate array has more than 100 entries as
\* submitted is answered 400; nothing of it is sanitized or processed and no
\* embedding or generation call is made for it.
C7_TooManyRejected ==
    Len(Submitted) > MAX_CHUNKS_ACCEPTED =>
        /\ pc \in {"start", "done"}
        /\ pc = "done" => response.status = 400
        /\ sanitizedChunks = <<>>
        /\ aiCalls = <<>>
        /\ genCalls = <<>>

C7_Witness ==
    /\ pc = "done"
    /\ response.status = 400
    /\ Len(Submitted) > MAX_CHUNKS_ACCEPTED
    /\ NumValid = MAX_CHUNKS_ACCEPTED
    /\ body.question.t = "string"
    /\ Len(body.question.v) \in 1..MAX_QUESTION_LENGTH
    /\ env.AI
    /\ env.ANTHROPIC_API_KEY

\* the request passes every check that precedes the sanitizer
PassesSizeChecks ==
    /\ body.t = "object"
    /\ body.question.t = "string"
    /\ Len(body.question.v) \in 1..MAX_QUESTION_LENGTH
    /\ Len(Submitted) \in 1..MAX_CHUNKS_ACCEPTED

\* C8: a candidate without a string identifier or a string text is dropped
\* and the valid ones are processed in their original relative order; the
\* request is answered 400 only when no valid candidate remains.
C8_InvalidDropped ==
    (PassesSizeChecks /\ pc # "start") =>
        /\ sanitizedChunks = ValidCandidates
        /\ response.status = 400 <=> NumValid = 0
        /\ (NumValid > 0 /\ env.ANTHROPIC_API_KEY) =>
              IF env.AI
              THEN /\ aiCalls # <<>>
                   /\ Len(aiCalls[1]) = Min(EMBEDDING_BATCH_SIZE, NumValid + 1)
              ELSE /\ genCalls # <<>>
                   /\ Len(genCalls[1].passages) = Min(RERANK_TOP_N, NumValid)

C8_Witness ==
    /\ pc = "done"
    /\ response.status = 200
    /\ NumValid >= 2
    /\ NumValid < Len(Submitted)
    /\ rerankDone

WithinCaps(p) ==
    /\ Len(p.id) <= MAX_CHUNK_ID_LENGTH
    /\ Len(p.sectionTitle) <= MAX_SECTION_TITLE_LENGTH
    /\ Len(p.text) <= MAX_CHUNK_TEXT_LENGTH

\* each field of p is a prefix of the field of the submitted candidate c
PrefixOfCandidate(p, c) ==
    /\ HasIdAndText(c)
    /\ IsPrefixOf(p.id, c.id.v)
    /\ IF c.sectionTitle.t = "string"
       THEN IsPrefixOf(p.sectionTitle, c.sectionTitle.v)
       ELSE p.sectionTitle = <<>>
    /\ IsPrefixOf(p.text, c.text.v)

FromSubmitted(p) == \E i \in 1..Len(Submitted) : PrefixOfCandidate(p, Submitted[i])

HasOverlongField(c) ==
    /\ HasIdAndText(c)
    /\ \/ Len(c.id.v) > MAX_CHUNK_ID_LENGTH
       \/ Len(c.text.v) > MAX_CHUNK_TEXT_LENGTH
       \/ (c.sectionTitle.t = "string"
           /\ Len(c.sectionTitle.v) > MAX_SECTION_TITLE_LENGTH)

\* C9: every candidate given to the reranker or placed in the prompt has an
\* identifier of at most 50, a section title of at most 200 and a text of at
\* most 5000 characters, each a prefix of the submitted field (the title
\* empty when it was not a string); an over-long field rejects neither the
\* candidate nor the request.
C9_FieldCaps ==
    LET vp == ValidPositions
        sent == SentTexts
    IN /\ Len(sanitizedChunks) <= Len(vp)
       /\ \A k \in 1..Len(sanitizedChunks) :
             /\ WithinCaps(sanitizedChunks[k])
             /\ PrefixOfCandidate(sanitizedChunks[k], Submitted[vp[k]])
       /\ \A i \in 2..Len(sent) :
             /\ Len(sent[i]) <= MAX_CHUNK_TEXT_LENGTH
             /\ IsPrefixOf(sent[i], Submitted[vp[i - 1]].text.v)
       /\ \A g \in 1..Len(genCalls) : \A k \in 1..Len(genCalls[g].passages) :
             /\ WithinCaps(genCalls[g].passages[k])
             /\ FromSubmitted(genCalls[g].passages[k])
       /\ (PassesSizeChecks /\ pc # "start") =>
             \A k \in 1..Len(vp) :
                 HasOverlongField(Submitted[vp[k]]) =>
                     /\ response.status # 400
                     /\ Len(sanitizedChunks) = Len(vp)
                     /\ PrefixOfCandidate(sanitizedChunks[k], Submitted[vp[k]])

C9_Witness ==
    /\ pc = "done"
    /\ response.status = 200
    /\ rerankDone
    /\ \E i \in 1..Len(Submitted) :
          /\ HasIdAndText(Submitted[i])
          /\ Len(Submitted[i].id.v) > MAX_CHUNK_ID_LENGTH
          /\ Len(Submitted[i].sectionTitle.v) > MAX_SECTION_TITLE_LENGTH
          /\ Len(Submitted[i].text.v) > MAX_CHUNK_TEXT_LENGTH
    /\ \E k \in 1..Len(genCalls[1].passages) :
          /\ Len(genCalls[1].passages[k].id) = MAX_CHUNK_ID_LENGTH
          /\ Len(genCalls[1].passages[k].sectionTitle) = MAX_SECTION_TITLE_LENGTH
          /\ Len(genCalls[1].passages[k].text) = MAX_CHUNK_TEXT_LENGTH

\* C10: validation precedes every collaborator call: a request answered 400
\* has called neither collaborator, and a collaborator is only ever called
\* with the question and the candidates of a request that passed validation.
C10_ValidationFirst ==
    /\ response.status = 400 =>
          aiCalls = <<>> /\ aiReplies = <<>> /\ genCalls = <<>> /\ genReplies = <<>>
    /\ (aiCalls # <<>> \/ genCalls # <<>>) =>
          /\ PassesSizeChecks
          /\ NumValid >= 1
          /\ aiCalls # <<>> => aiCalls[1][1] = body.question.v
          /\ genCalls # <<>> => genCalls[1].question = body.question.v
          /\ LET sent == SentTexts
                 vc == ValidCandidates
             IN /\ \A i \in 2..Len(sent) : \E k \in 1..Len(vc) : sent[i] = vc[k].text
                /\ \A g \in 1..Len(genCalls) : \A j \in 1..Len(genCalls[g].passages) :
                      \E k \in 1..Len(vc) : genCalls[g].passages[j] = vc[k]

C10_Witness ==
    /\ pc = "done"
    /\ response.status = 400
    /\ env.AI
    /\ env.ANTHROPIC_API_KEY
    /\ body.question.t = "string"
    /\ Len(body.question.v) \in 1..MAX_QUESTION_LENGTH
    /\ Len(Submitted) >= 1
    /\ NumValid = 0

(* ---- Failures at the boundary and of the collaborators ----------------- *)
\* the request is malformed at the boundary: its body is not a JSON object,
\* its question is missing, empty or not a string, its candidate array is
\* missing, empty or not an array, or none of its candidates is valid
Malformed ==
    \/ body.t # "object"
    \/ body.question.t # "string"
    \/ body.question.v = <<>>
    \/ body.chunks.t # "array"
    \/ body.chunks.v = <<>>
    \/ NumValid = 0

\* C11: every request with malformed input at the boundary is answered 400,
\* and never with a status of an internal or downstream failure (500, 502).
C11_MalformedIs400 ==
    (pc = "done" /\ Malformed) =>
        /\ response.status = 400
        /\ response.status \notin {500, 502}

\* some call to the embedding collaborator returned a response of the wrong
\* shape: no data array, too few or too many vectors, or a vector of another
\* dimension
SomeReplyMalformed ==
    \E k \in 1..Len(aiReplies) : aiReplies[k].kind \in {"nodata", "short", "long", "baddim"}

\* the candidates of a sequence rerankChunks returned, in its order, without
\* the similarity a rerank attaches
CandidatesOf(r) ==
    [i \in 1..Len(r) |->
        [id |-> r[i].id, sectionTitle |-> r[i].sectionTitle, text |-> r[i].text]]

\* C12: when the embedding collaborator returns a response of the wrong shape
\* for a batch, rerankChunks returns the candidates in input order and never
\* an order computed from the vectors.
C12_MalformedReplyFallsBack ==
    (rerankDone /\ SomeReplyMalformed) =>
        CandidatesOf(reranked) = sanitizedChunks

\* the text-generation call failed: non-success status, a call that threw,
\* an unparsable body, or a body without answer text
GenerationFailed == genReplies # <<>> /\ genReplies[1] # "ok"

\* C13: when the text-generation call fails for a valid request, the
\* response is 502 and never a 200.
C13_GenerationFailureIs502 ==
    (pc = "done" /\ GenerationFailed) => response.status = 502

\* the embedding step failed: a call threw, a reply had no data array, or
\* the replies held fewer vectors than texts, so that rerankChunks threw
EmbeddingFailed ==
    \/ \E k \in 1..Len(aiReplies) : aiReplies[k].kind \in {"throw", "nodata"}
    \/ /\ rerankDone
       /\ Len(ReturnedVectors) < Len(sanitizedChunks) + 1

\* the identifiers of the first min(25, n) valid candidates, as submitted
FirstValidIds ==
    LET vc == ValidCandidates
    IN [k \in 1..Min(RERANK_TOP_N, Len(vc)) |-> vc[k].id]

\* C14: an embedding failure alone never produces an error response: if the
\* embedding step fails and generation succeeds, the response is 200 with
\* rerankedIds the first min(25, n) valid candidate ids in submitted order.
C14_EmbeddingFailureNoError ==
    (pc = "done" /\ EmbeddingFailed /\ genReplies = <<"ok">>) =>
        /\ response.status = 200
        /\ response.rerankedIds = FirstValidIds
        /\ Len(response.rerankedIds) = Min(RERANK_TOP_N, NumValid)

C14_Witness ==
    /\ pc = "done"
    /\ Len(aiReplies) = 2
    /\ aiReplies[2].kind = "throw"
    /\ genReplies = <<"ok">>
    /\ response.status = 200
    /\ Len(response.rerankedIds) = RERANK_TOP_N

\* the request was served by a rerank that succeeded
ServedByRerank == rerankDone /\ AllRepliesOk

\* the response of the same request and the same answer text when it is
\* served by the fallback order
ResponseByFallback ==
    [status |-> 200, rerankedIds |-> RerankedIds(TopN(sanitizedChunks))]

\* C15: the response tells whether semantic reranking was used: the response
\* of a request served by a successful rerank differs from the response the
\* same request gets when served by the fallback order.
C15_ModeVisible ==
    (response.status = 200 /\ ServedByRerank) => response # ResponseByFallback

(* ---- Batching ---------------------------------------------------------- *)
\* the request is a POST /embed request
OnEmbedRoute == ebody.t # "none"

\* the submitted texts array ( <<>> when none was submitted )
SubmittedTexts == IF ebody.texts.t = "array" THEN ebody.texts.v ELSE <<>>

\* the positions of the non-empty strings in the submitted texts, ascending
TextPositions ==
    SelectSeq([i \in 1..Len(SubmittedTexts) |-> i],
              LAMBDA i : SubmittedTexts[i].t = "string" /\ SubmittedTexts[i].v # <<>>)

\* the full text sequence to embed: for a question, the question and then
\* the texts of the valid candidates; for POST /embed, the non-empty strings
\* submitted, capped
TextsToEmbed ==
    IF OnEmbedRoute
    THEN LET tp == TextPositions
         IN SubSeq([k \in 1..Len(tp) |->
                       Prefix(SubmittedTexts[tp[k]].v, MAX_EMBED_TEXT_LENGTH)], 1, Len(tp))
    ELSE LET vc == ValidCandidates
         IN <<body.question.v>> \o SubSeq([k \in 1..Len(vc) |-> vc[k].text], 1, Len(vc))

\* the batch loop has run to its end
LoopFinished ==
    /\ Len(aiReplies) = Len(aiCalls)
    /\ \A k \in 1..Len(aiReplies) : aiReplies[k].kind \notin {"throw", "nodata"}

\* C16: every call to the embedding collaborator, from rerankChunks and from
\* handleEmbed, carries between 1 and 100 texts; the batches sent so far,
\* concatenated in call order, are a prefix of the full text sequence, and
\* are all of it once the loop has run to its end.
C16_Batches ==
    aiCalls # <<>> =>
        LET full == TextsToEmbed
            sent == SentTexts
        IN /\ \A k \in 1..Len(aiCalls) : Len(aiCalls[k]) \in 1..EMBEDDING_BATCH_SIZE
           /\ \A k \in 1..Len(aiCalls) :
                 aiCalls[k] = SubSeq(full, (k - 1) * EMBEDDING_BATCH_SIZE + 1,
                                     Min(k * EMBEDDING_BATCH_SIZE, Len(full)))
           /\ IsPrefixOf(sent, full)
           /\ (pc = "done" /\ LoopFinished) => sent = full

C16_Witness ==
    /\ OnEmbedRoute
    /\ eresponse.status = 200
    /\ Len(aiCalls) = 2
    /\ Len(aiCalls[1]) = EMBEDDING_BATCH_SIZE
    /\ Len(aiCalls[2]) = EMBEDDING_BATCH_SIZE
    /\ Len(SubmittedTexts) = MAX_EMBED_TEXTS

\* C17: for every accepted question request the reranker obtains the query
\* embedding and all candidate embeddings in a single call to the embedding
\* collaborator, query first and candidates after it.
C17_SingleCall ==
    (rerankDone /\ AllRepliesOk) =>
        /\ Len(aiCalls) = 1
        /\ aiCalls[1] = TextsToEmbed

\* C17 (amended): the reranker obtains the embeddings in a single call,
\* query first, when the request has at most 99 valid candidates; with 100
\* valid candidates it makes two calls, the query and the first 99
\* candidates and then the 100th candidate.
C17_CallsByCount ==
    (rerankDone /\ AllRepliesOk) =>
        LET full == TextsToEmbed
        IN IF NumValid < EMBEDDING_BATCH_SIZE
           THEN aiCalls = <<full>>
           ELSE /\ NumValid = MAX_CHUNKS_ACCEPTED
                /\ aiCalls = <<SubSeq(full, 1, EMBEDDING_BATCH_SIZE),
                               <<full[EMBEDDING_BATCH_SIZE + 1]>> >>
                /\ aiCalls[1][1] = body.question.v

C17_Witness ==
    /\ rerankDone
    /\ AllRepliesOk
    /\ NumValid = MAX_CHUNKS_ACCEPTED
    /\ Len(aiCalls) = 2
    /\ Len(aiCalls[2]) = 1

\* C18: for a POST /embed answered 200 (the collaborator returning one
\* vector per text), the embeddings are parallel to the submitted texts:
\* same length, the i-th vector being the one returned for the i-th
\* submitted text.
C18_Parallel ==
    (eresponse.status = 200 /\ AllRepliesOk) =>
        /\ Len(eresponse.embeddings) = Len(SubmittedTexts)
        /\ \A i \in 1..Len(SubmittedTexts) :
              /\ SubmittedTexts[i].t = "string"
              /\ SentTexts[i] = Prefix(SubmittedTexts[i].v, MAX_EMBED_TEXT_LENGTH)
              /\ eresponse.embeddings[i] = ReturnedVectors[i]

\* C19: embedding is all-or-nothing: when a batch call fails, POST /embed
\* answers 500 with no embeddings, and rerankChunks returns its input
\* unchanged, with no similarity from the vectors of the earlier batches.
C19_AllOrNothing ==
    SomeCallThrew =>
        IF OnEmbedRoute
        THEN /\ pc = "done"
             /\ eresponse.status = 500
             /\ eresponse.embeddings = <<>>
        ELSE /\ rerankDone
             /\ reranked = sanitizedChunks
             /\ pc # "reranked" => bestChunks = Prefix(sanitizedChunks, RERANK_TOP_N)
             /\ response.status = 200 =>
                    response.rerankedIds = RerankedIds(Prefix(sanitizedChunks, RERANK_TOP_N))

C19_Witness ==
    /\ OnEmbedRoute
    /\ Len(aiReplies) = 2
    /\ aiReplies[1].kind = "ok"
    /\ Len(aiReplies[1].data) = EMBEDDING_BATCH_SIZE
    /\ aiReplies[2].kind = "throw"
    /\ eresponse.status = 500

(* ---- Sequencing -------------------------------------------------------- *)
\* the calls in flight: issued and not yet returned
EmbedInFlight == Len(aiCalls) - Len(aiReplies)
GenerationInFlight == Len(genCalls) - Len(genReplies)

\* C20: within one question request the steps are sequential: at most one
\* embedding call is in flight, batch k+1 being issued only after batch k
\* has returned; the generation call is issued only after the embedding
\* step has finished, and is never in flight together with an embedding
\* call.
C20_Sequential ==
    /\ EmbedInFlight \in {0, 1}
    /\ GenerationInFlight \in {0, 1}
    /\ ~(EmbedInFlight = 1 /\ GenerationInFlight = 1)
    /\ genCalls # <<>> =>
          /\ EmbedInFlight = 0
          /\ env.AI => rerankDone
    /\ rerankDone => EmbedInFlight = 0

C20_Witness ==
    /\ Len(aiCalls) = 2
    /\ Len(aiReplies) = 2
    /\ genCalls # <<>>
    /\ genReplies = <<>>
    /\ rerankDone

(* ---- Calls made and responses given ------------------------------------ *)
\* the number of batches of the question and n candidate texts
BatchesFor(n) == (n + 1 + EMBEDDING_BATCH_SIZE - 1) \div EMBEDDING_BATCH_SIZE

\* the calls made stay within their bounds and none follows a failed call
CallsBounded ==
    /\ Len(aiCalls) <= BatchesFor(NumValid)
    /\ Len(genCalls) <= 1
    /\ \A k \in 1..Len(aiReplies) :
          aiReplies[k].kind \in {"throw", "nodata"} => Len(aiCalls) = k
    /\ (pc = "done") = (response.status # 0)

\* a collaborator call once made is never made again, and a response once
\* given stays
NothingRepeated ==
    /\ IsPrefixOf(aiCalls, aiCalls')
    /\ Len(aiCalls') <= Len(aiCalls) + 1
    /\ IsPrefixOf(genCalls, genCalls')
    /\ response.status # 0 => response' = response

\* C21: no collaborator call is retried: a question request with n valid
\* candidates makes at most ceil((n+1)/100) embedding calls and at most one
\* generation call, none after an embedding call that failed, and, every
\* call returning or failing, it ends with exactly one response.
C21_NoRetry ==
    /\ []CallsBounded
    /\ [][NothingRepeated]_vars
    /\ <>[](pc = "done" /\ response.status # 0)

C21_Witness ==
    /\ pc = "done"
    /\ NumValid = MAX_CHUNKS_ACCEPTED
    /\ Len(aiCalls) = 1
    /\ aiReplies[1].kind = "throw"
    /\ Len(genCalls) = 1
    /\ response.status = 200

(* ---- The input of rerankChunks ----------------------------------------- *)
\* C24: rerankChunks never mutates what it is given: after it returns, by
\* success or by fallback, the candidate array handed to it holds the same
\* candidates in the same order with the same fields and values.
C24_InputUntouched ==
    rerankDone =>
        /\ sanitizedChunks = ValidCandidates
        /\ \A i \in 1..Len(sanitizedChunks) :
              DOMAIN sanitizedChunks[i] = {"id", "sectionTitle", "text"}

C24_Witness ==
    /\ rerankDone
    /\ AllRepliesOk
    /\ Len(sanitizedChunks) >= 2
    /\ CandidatesOf(reranked) # sanitizedChunks
    /\ sanitizedChunks = ValidCandidates

(* ---- Similarity values ------------------------------------------------- *)
IsZero(v) == \A i \in 1..Len(v) : v[i] = 0

\* the vector returned for candidate i
CandidateVector(i) == VectorFor(CallOf(i + 1), PosOf(i + 1))

\* C25: the similarity of two equal-length vectors of which one is all-zero
\* is the finite value 0, so a candidate with a degenerate embedding is
\* still ranked and the rerank does not fall back.
C25_ZeroVectorIsZero ==
    (rerankDone /\ AllRepliesOk) =>
        \A i \in 1..Len(sanitizedChunks) :
            (IsZero(VectorFor(1, 1)) \/ IsZero(CandidateVector(i))) =>
                /\ ~SimilarityOf(i).nan
                /\ SimilarityOf(i).dot = 0
                /\ \E k \in 1..Len(reranked) :
                      /\ reranked[k].id = sanitizedChunks[i].id
                      /\ reranked[k].text = sanitizedChunks[i].text
                      /\ ~reranked[k].similarity.nan
                      /\ reranked[k].similarity.dot = 0

C25_Witness ==
    /\ rerankDone
    /\ AllRepliesOk
    /\ Len(sanitizedChunks) = 2
    /\ ~IsZero(VectorFor(1, 1))
    /\ IsZero(CandidateVector(1))
    /\ ~IsZero(CandidateVector(2))
    /\ SimGreater(SimilarityOf(2), SimilarityOf(1))
    /\ reranked[2].similarity.dot = 0

\* C26: every candidate returned by a rerank that did not fall back carries
\* a similarity that is a number in [-1, 1], whatever the collaborator
\* returned without the call failing.
C26_SimilarityInRange ==
    (rerankDone /\ ~EmbeddingFailed) =>
        \A k \in 1..Len(reranked) :
            /\ ~reranked[k].similarity.nan
            /\ reranked[k].similarity.dot <= reranked[k].similarity.mag
            /\ -reranked[k].similarity.dot <= reranked[k].similarity.mag

(* ---- The response and the prompt --------------------------------------- *)
\* the number of positions of s that hold x
Occurrences(x, s) == Cardinality({j \in 1..Len(s) : s[j] = x})

\* C36: for every 200 response of the question route, rerankedIds lists, in
\* the same order, the identifiers of the passages placed in the generation
\* prompt, and these passages are a prefix of a permutation of the valid
\* submitted candidates: each comes from a submitted candidate, its
\* identifier cut to 50 characters, and none is used more often than it was
\* submitted.
C36_IdsMatchPrompt ==
    response.status = 200 =>
        /\ Len(genCalls) = 1
        /\ LET placed == genCalls[1].passages
           IN /\ response.rerankedIds = [i \in 1..Len(placed) |-> placed[i].id]
              /\ Len(placed) <= NumValid
              /\ \A i \in 1..Len(placed) :
                    /\ Len(placed[i].id) <= MAX_CHUNK_ID_LENGTH
                    /\ FromSubmitted(placed[i])
                    /\ Occurrences(placed[i], placed)
                          <= Occurrences(placed[i], ValidCandidates)

C36_Witness ==
    /\ response.status = 200
    /\ rerankDone
    /\ Len(response.rerankedIds) >= 2
    /\ CandidatesOf(reranked) # sanitizedChunks
    /\ \E i \in 1..Len(Submitted) :
          HasIdAndText(Submitted[i]) /\ Len(Submitted[i].id.v) > MAX_CHUNK_ID_LENGTH

\* x and y carry the same similarity, a number
TiesWith(x, y) ==
    /\ ~x.similarity.nan
    /\ ~y.similarity.nan
    /\ SignDiff(x.similarity, y.similarity) = 0

\* the candidates of s that tie with x, in their order in s
TiedWith(x, s) == SelectSeq(s, LAMBDA y : TiesWith(x, y))

\* C37: reranking is stable on ties: the candidates of equal similarity
\* appear in the output of a rerank that did not fall back in the same
\* relative order as in its input.
C37_StableOnTies ==
    (rerankDone /\ ~EmbeddingFailed) =>
        LET scored == SubSeq(Scored(sanitizedChunks, allEmbeddings), 1,
                             Len(sanitizedChunks))
        IN \A i \in 1..Len(reranked) :
              TiedWith(reranked[i], reranked) = TiedWith(reranked[i], scored)

\* C38: a valid question request that finds no generation API key is
\* answered with status 500 and neither the embedding collaborator nor
\* the generation collaborator is called.
C38_NoKeyNoCalls ==
    (/\ pc # "start"
     /\ ReachesSanitize(body)
     /\ Len(SanitizeChunks(body.chunks.v)) > 0
     /\ ~env.ANTHROPIC_API_KEY) =>
        /\ pc = "done"
        /\ response.status = 500
        /\ aiCalls = <<>>
        /\ aiReplies = <<>>
        /\ genCalls = <<>>
        /\ genReplies = <<>>

\* a valid request answered 500 for the missing key although the
\* embedding collaborator is bound
C38_Witness ==
    /\ pc = "done"
    /\ ReachesSanitize(body)
    /\ Len(sanitizedChunks) > 1
    /\ env.AI
    /\ ~env.ANTHROPIC_API_KEY
    /\ response = [status |-> 500, rerankedIds |-> <<>>]
    /\ aiCalls = <<>>

(* ---- POST /embed: validation -------------------------------------------- *)
\* texts is missing, is not an array, is empty, has more than 200 entries
\* or holds no non-empty string
TextsRejected ==
    \/ ebody.texts = Undef
    \/ ebody.texts.t # "array"
    \/ Len(SubmittedTexts) = 0
    \/ Len(SubmittedTexts) > MAX_EMBED_TEXTS
    \/ \A i \in 1..Len(SubmittedTexts) :
          SubmittedTexts[i].t # "string" \/ SubmittedTexts[i].v = <<>>

\* C39: POST /embed answers 400 and does not call the embedding
\* collaborator when the body's texts is missing, not an array, empty,
\* longer than 200 entries or without any non-empty string; otherwise
\* every text sent to the collaborator is a submitted string cut to 5000
\* characters, and is not empty.
C39_EmbedValidation ==
    (OnEmbedRoute /\ pc # "estart" /\ ~BodyThrows(ebody)) =>
        IF TextsRejected
        THEN /\ pc = "done"
             /\ eresponse.status = 400
             /\ aiCalls = <<>>
        ELSE \A k \in 1..Len(aiCalls) : \A j \in 1..Len(aiCalls[k]) :
                /\ Len(aiCalls[k][j]) \in 1..MAX_EMBED_TEXT_LENGTH
                /\ \E i \in 1..Len(SubmittedTexts) :
                      /\ SubmittedTexts[i].t = "string"
                      /\ aiCalls[k][j] = Prefix(SubmittedTexts[i].v, MAX_EMBED_TEXT_LENGTH)

\* a call that carries a text cut to 5000 characters, from an array one
\* of whose entries was dropped
C39_Witness ==
    /\ OnEmbedRoute
    /\ ~TextsRejected
    /\ Len(aiCalls) = 1
    /\ Len(aiCalls[1]) < Len(SubmittedTexts)
    /\ \E j \in 1..Len(aiCalls[1]) : Len(aiCalls[1][j]) = MAX_EMBED_TEXT_LENGTH

(* ---- Rate limiting ----------------------------------------------------- *)
\* C22: within one rate-limit window of one client IP at most 30 POST
\* requests are admitted and every further one is answered 429: of the
\* POSTs seen in the window, the first 30 are the admitted ones.
C22_WindowLimit ==
    /\ \A k \in Keys :
          /\ gwin[k].admitted <= RATE_LIMIT_MAX_REQUESTS
          /\ gwin[k].admitted = Min(gwin[k].seen, RATE_LIMIT_MAX_REQUESTS)
    /\ rlast.method = "POST" =>
          (rlast.outcome = "429") = (gwin[rlast.ip].seen > RATE_LIMIT_MAX_REQUESTS)

C22_Witness ==
    /\ rlast.method = "POST"
    /\ rlast.ip = "ip1"
    /\ rlast.outcome = "429"
    /\ gwin["ip1"].start > RATE_LIMIT_WINDOW_MS
    /\ gwin["ip1"].seen = RATE_LIMIT_MAX_REQUESTS + 1
    /\ gwin["ip1"].admitted = RATE_LIMIT_MAX_REQUESTS
    /\ gwin["ip2"].open

\* C31: a rate-limited client is admitted again: the first POST of an IP
\* that arrives more than 60 000 ms after the start of its window is admitted
\* and opens a window with count 1 that starts now, however many of its
\* POSTs were rejected before; a rejected POST increases the count by one
\* and leaves the window start where it was.
C31_Readmitted ==
    [][\A k \in Keys :
          gwin'[k] # gwin[k] =>
            /\ (gwin[k].open /\ now - gwin[k].start > RATE_LIMIT_WINDOW_MS) =>
                  /\ rlast'.outcome \in {"handleAsk", "handleEmbed"}
                  /\ rateLimitMap'[k] =
                        [present |-> TRUE, count |-> 1, windowStart |-> now]
            /\ rlast'.outcome = "429" =>
                  /\ rateLimitMap'[k].count = rateLimitMap[k].count + 1
                  /\ rateLimitMap'[k].windowStart = rateLimitMap[k].windowStart]_vars

C31_Witness ==
    /\ rlast.ip = "ip1"
    /\ rlast.outcome \in {"handleAsk", "handleEmbed"}
    /\ rateLimitMap["ip1"] =
          [present |-> TRUE, count |-> 1, windowStart |-> RATE_LIMIT_WINDOW_MS + 1]
    /\ now = RATE_LIMIT_WINDOW_MS + 1
    /\ gwin["ip1"].limitedBefore

\* the entry of k had cleanupRateLimits never run: gwin follows the requests
\* alone
EntryWithoutCleanup(k) ==
    [present |-> gwin[k].open, count |-> gwin[k].seen, windowStart |-> gwin[k].start]

\* C33: cleanupRateLimits is unobservable: the entry of every IP is the one
\* it would be had cleanup never run, or it has been deleted and its window
\* started more than 120 000 ms ago; so a request arriving now gets the same
\* decision (429, or admitted and counted in the same window) either way.
C33_CleanupUnobservable ==
    \A k \in Keys :
        /\ \/ rateLimitMap[k] = EntryWithoutCleanup(k)
           \/ /\ ~rateLimitMap[k].present
              /\ gwin[k].open
              /\ now - gwin[k].start > RATE_LIMIT_WINDOW_MS * 2
        /\ isRateLimited(rateLimitMap, k, now) =
              (/\ gwin[k].open
               /\ now - gwin[k].start <= RATE_LIMIT_WINDOW_MS
               /\ gwin[k].seen + 1 > RATE_LIMIT_MAX_REQUESTS)
        /\ StartsWindow(rateLimitMap, k, now) =
              (~gwin[k].open \/ now - gwin[k].start > RATE_LIMIT_WINDOW_MS)

C33_Witness ==
    /\ rlast.outcome \in {"handleAsk", "handleEmbed"}
    /\ rlast.ip = "ip2"
    /\ ~rateLimitMap["ip1"].present
    /\ gwin["ip1"].open
    /\ gwin["ip1"].seen > RATE_LIMIT_MAX_REQUESTS

\* the count of k, 0 when k has no entry
CountOf(m, k) == IF m[k].present THEN m[k].count ELSE 0

\* the request of the step was answered 429 and reached no handler
RejectedBeforeHandlers ==
    rlast'.outcome = "429" =>
        /\ rlast'.outcome \notin {"handleAsk", "handleEmbed"}
        /\ UNCHANGED <<avars, evars, cvars>>

\* C34 as stated: the rate-limit map is changed by POST requests only, and
\* every POST changes the count of its IP by exactly one; a request answered
\* 429 reaches no handler.
C34_CountChangesByOne ==
    [][/\ rateLimitMap' # rateLimitMap => gwin' # gwin
       /\ \A k \in Keys :
             gwin'[k] # gwin[k] =>
                CountOf(rateLimitMap', k) = CountOf(rateLimitMap, k) + 1
       /\ RejectedBeforeHandlers]_vars

\* C34: the rate-limit map is changed by POST requests only (OPTIONS
\* requests and requests with another method leave it unchanged), and every
\* POST, whatever its route and outcome, is counted exactly once for its IP:
\* it adds one to the count of the IP's window or, when it opens a window,
\* sets the count to 1; the entry of another IP is left alone unless cleanup
\* deletes it more than 120 000 ms after its window started; a request
\* answered 429 reaches no handler.
C34_CountedOnce ==
    [][/\ rateLimitMap' # rateLimitMap => gwin' # gwin
       /\ \A k \in Keys :
             IF gwin'[k] # gwin[k]
             THEN /\ rateLimitMap'[k].present
                  /\ rateLimitMap'[k].count =
                        IF ~gwin[k].open \/ now - gwin[k].start > RATE_LIMIT_WINDOW_MS
                        THEN 1
                        ELSE rateLimitMap[k].count + 1
             ELSE \/ rateLimitMap'[k] = rateLimitMap[k]
                  \/ /\ rateLimitMap'[k] = NoEntry
                     /\ now - rateLimitMap[k].windowStart > RATE_LIMIT_WINDOW_MS * 2
       /\ RejectedBeforeHandlers]_vars

C34_Witness ==
    /\ rlast.method = "POST"
    /\ rlast.outcome = "429"
    /\ rateLimitMap[rlast.ip].count = RATE_LIMIT_MAX_REQUESTS + 2
    /\ gwin[rlast.ip].seen = RATE_LIMIT_MAX_REQUESTS + 2

\* the bucket of a caller: its address, "unknown" when it sent none
BucketOf(header) == IF header = "" THEN "unknown" ELSE header

\* the step changes what a request of bucket j is answered, now or later: it
\* changes the entry of j, other than from one expired entry to another
DecisionsChange(j) ==
    /\ rateLimitMap'[j] # rateLimitMap[j]
    /\ ~(StartsWindow(rateLimitMap', j, now) /\ StartsWindow(rateLimitMap, j, now))

\* C35: rate limiting is per caller address: what a request of one address
\* is answered is changed only by POSTs of that address, never by requests
\* of another address; the requests without a CF-Connecting-IP header share
\* the bucket "unknown".
C35_PerAddress ==
    [][\A j \in Keys :
          DecisionsChange(j) =>
            /\ rlast'.method = "POST"
            /\ BucketOf(rlast'.header) = j]_vars

C35_Witness ==
    /\ rlast.method = "POST"
    /\ rlast.header = ""
    /\ rlast.outcome \in {"handleAsk", "handleEmbed"}
    /\ rateLimitMap["unknown"].present
    /\ rateLimitMap["unknown"].windowStart = now
    /\ isRateLimited(rateLimitMap, "ip1", now)
    /\ rateLimitMap["ip2"].present
    /\ ~isRateLimited(rateLimitMap, "ip2", now)

\* C32: the number of requests admitted from one IP in any time span of
\* 60 000 ms never exceeds 60: of the admissions of the IP in time order, the
\* 61st after any one is more than 60 000 ms later.
C32_SpanLimit ==
    \A i \in 1..Len(alog) :
        i + 2 * RATE_LIMIT_MAX_REQUESTS <= Len(alog) =>
            alog[i + 2 * RATE_LIMIT_MAX_REQUESTS] - alog[i] > RATE_LIMIT_WINDOW_MS

\* three windows filled, and the admissions of two of them, but for the one
\* that opened the first, within one span of 60 000 ms
C32_Witness ==
    /\ Len(alog) = 3 * RATE_LIMIT_MAX_REQUESTS
    /\ alog[2 * RATE_LIMIT_MAX_REQUESTS] - alog[2] = RATE_LIMIT_WINDOW_MS
    /\ alog[2 * RATE_LIMIT_MAX_REQUESTS + 1] - alog[2] > RATE_LIMIT_WINDOW_MS

(* ---- Requests in flight together --------------------------------------- *)
RECURSIVE ConcatOwnData(_, _)
\* the vectors returned to the calls of request rq, in call order
ConcatOwnData(rq, k) ==
    IF k = 0 THEN <<>> ELSE ConcatOwnData(rq, k - 1) \o rq.aiReplies[k].data

\* what rerankChunks returns for the body of rq and the replies to the calls
\* of rq alone
OwnOutcome(rq) ==
    LET sc == SanitizeChunks(rq.body.chunks.v)
        own == ConcatOwnData(rq, Len(rq.aiReplies))
    IN IF \/ \E k \in 1..Len(rq.aiReplies) : ~ReplyUsable(rq.aiReplies[k].kind)
          \/ ScoringThrows(sc, own)
       THEN sc
       ELSE StableSort(Scored(sc, own))

\* C23: admitted requests are independent: when question requests are in
\* flight together and interleave at their awaits, the candidates each hands
\* to generation and the rerankedIds it returns are a function of its own
\* body and of the replies to its own calls, and its allEmbeddings holds
\* its own vectors only.
C23_Independent ==
    \A r \in 1..Len(reqs) :
        LET rq == reqs[r]
        IN /\ rq.rerankDone => rq.reranked = OwnOutcome(rq)
           /\ rq.genCalls # <<>> =>
                /\ rq.bestChunks = TopN(OwnOutcome(rq))
                /\ rq.genCalls = <<Prompt(rq.body.question.v, TopN(OwnOutcome(rq)))>>
                /\ rq.response.status = 200 =>
                      rq.response.rerankedIds = RerankedIds(TopN(OwnOutcome(rq)))
           /\ IsPrefixOf(stores[r], ConcatOwnData(rq, Len(rq.aiReplies)))

C23_Witness ==
    /\ Len(reqs) >= 2
    /\ reqs[1].pc = "embed"
    /\ reqs[2].pc = "done"
    /\ reqs[2].response.status = 200
    /\ reqs[2].aiReplies[1].kind = "ok"
    /\ CandidatesOf(reqs[2].reranked) # reqs[2].sanitizedChunks
    /\ reqs[1].body # reqs[2].body

(* ---- The lexical engine ------------------------------------------------ *)
LexScored == lex.pc \in {"scored", "grouped"}

\* the positions of candidate c in the members of the groups
PlacesOf(c) ==
    {<<g, k>> \in (1..Len(lex.groups)) \X (1..Len(lex.ranked)) :
        k <= Len(lex.groups[g].members) /\ lex.groups[g].members[k] = c}

PositionIn(c, s) == CHOOSE i \in 1..Len(s) : s[i] = c

\* C27: groupBySection partitions its input: every candidate is a member of
\* exactly one group, the group of its parent section, and the groups hold
\* nothing else; members keep their relative order; groups are ordered by
\* their top member's score, descending, ties by section identifier as a
\* string.
C27_GroupsPartition ==
    lex.pc = "grouped" =>
      /\ \A i \in 1..Len(lex.ranked) :
            /\ Cardinality(PlacesOf(lex.ranked[i])) = 1
            /\ \A pl \in PlacesOf(lex.ranked[i]) :
                  lex.groups[pl[1]].sectionId = lex.ranked[i].passage.parentId
      /\ \A g \in 1..Len(lex.groups) :
            LET m == lex.groups[g].members
            IN /\ m # <<>>
               /\ \A k \in 1..Len(m) : \E i \in 1..Len(lex.ranked) : lex.ranked[i] = m[k]
               /\ \A k, l \in 1..Len(m) :
                     k < l => PositionIn(m[k], lex.ranked) < PositionIn(m[l], lex.ranked)
      /\ \A g, h \in 1..Len(lex.groups) :
            g < h =>
              \/ lex.groups[g].members[1].score > lex.groups[h].members[1].score
              \/ /\ lex.groups[g].members[1].score = lex.groups[h].members[1].score
                 /\ StringCompare(lex.groups[g].sectionId, lex.groups[h].sectionId) < 0

C27_Witness ==
    /\ lex.pc = "grouped"
    /\ Len(lex.ranked) = 3
    /\ Len(lex.groups) = 2
    /\ Len(lex.groups[2].members) = 2
    /\ lex.groups[1].members[1].score = lex.groups[2].members[1].score

\* C28: ordering candidates whose identifiers are not numeric never raises
\* and is deterministic: no comparison of two candidates yields NaN, and two
\* runs on the same input give the same order.
C28_OrderDeterministic ==
    LexScored =>
      /\ lex.ranked = lex.rerun
      /\ \A i, j \in 1..Len(lex.ranked) :
            ~CompareCandidates(lex.ranked[i], lex.ranked[j]).nan
      /\ \A i, j \in 1..Len(lex.ranked) :
            i < j => CompareCandidates(lex.ranked[i], lex.ranked[j]).v < 0

C28_Witness ==
    /\ LexScored
    /\ \E i, j \in 1..Len(lex.ranked) :
          /\ i < j
          /\ lex.ranked[i].passage.id = <<"A", ".", "1", ".", "2">>
          /\ lex.ranked[j].passage.id =
                <<"D", ".", "9", ".", "d", "e", "f", ".", "s", "i", "g", "n">>
          /\ lex.ranked[i].score = lex.ranked[j].score

\* some term of the expanded query occurs in the passage
Matches(passage) == \E t \in lex.queryTerms : TermFrequency(t, passage) > 0

\* C29: scoreChunks returns its candidates in non-increasing score order
\* and only passages with a score above zero; when no expanded query term
\* occurs in any passage it returns the empty sequence.
C29_ScoredDescending ==
    LexScored =>
      /\ \A i \in 1..Len(lex.ranked) :
            /\ lex.ranked[i].score > 0
            /\ \E k \in 1..Len(lex.corpus) : lex.corpus[k] = lex.ranked[i].passage
      /\ \A i, j \in 1..Len(lex.ranked) :
            i < j => lex.ranked[i].score >= lex.ranked[j].score
      /\ (\A k \in 1..Len(lex.corpus) : ~Matches(lex.corpus[k])) => lex.ranked = <<>>

C29_Witness ==
    /\ LexScored
    /\ Len(lex.ranked) = 2
    /\ lex.ranked[1].score > lex.ranked[2].score
    /\ \E k \in 1..Len(lex.corpus) : ~Matches(lex.corpus[k])

C29_NoMatchWitness ==
    /\ LexScored
    /\ lex.queryTerms # {}
    /\ lex.ranked = <<>>

====
